---- MODULE Spec2Model ----
(***************************************************************************)
(* Timeline / history engine of the media editor.                          *)
(*                                                                         *)
(*   - the editor store (src/src/renderer/store/useEditorStore.js): the    *)
(*     tracks, their clips and the stored aggregate duration, the          *)
(*     selection, the playhead and the volume keyframes of the clips;      *)
(*   - an AudioClip (src/src/renderer/modules/audio/audioTypes.js) and a   *)
(*     KeyframeTrack (src/src/renderer/modules/keyframes/keyframeTypes.js);*)
(*   - the history manager                                                 *)
(*     (src/src/renderer/modules/history/HistoryManager.js): the undo and  *)
(*     redo stacks, the executing guard and the batch collector.           *)
(*                                                                         *)
(* Times are integers in tenths of a second (0.1 s = 1).                   *)
(***************************************************************************)
EXTENDS Integers, Sequences, FiniteSets, TLC

VARIABLES
  \* ---- editor store (useEditorStore.js:24-60)
  tracks,          \* track id -> sequence of clips (see NewItem)
  duration,        \* stored total timeline duration
  selectedItemId,  \* id of the selected clip, 0 for null
  nextItemId,      \* generateId(): ids are fresh, modelled as a counter
  playhead,        \* current time
  isDirty,         \* unsaved changes
  nextKfId,        \* generateId() for the keyframes of the clips
  storeCall,       \* the reorderItems/splitClip call made last, its outcome
  \* ---- an AudioClip object (audioTypes.js:76-348)
  clip,            \* <<>> before it is constructed, then <<the object>>
  newClip,         \* what the last split() returned: <<>> is null
  clipCall,        \* the method of the clip called last and its argument
  nextClipId,      \* generateId() of the AudioClip module, as a counter
  \* ---- a KeyframeTrack object (keyframeTypes.js:195-384)
  keyframes,       \* this.keyframes
  nextKeyframeId,  \* generateId() of the KeyframeTrack module, as a counter
  enabled,         \* this.enabled
  kfCall,          \* the getValueAtTime call made last and what it returned
  \* ---- history manager (HistoryManager.js:16-24)
  undoStack,
  redoStack,
  isExecuting,
  batchMode,
  batchActions,
  \* ---- the undo()/redo() call in flight and the world the effects act on
  pc,              \* "idle", or "undo"/"redo" while an effect closure runs
  cur,             \* local `action` of undo()/redo(): <<>> or <<action>>
  idx,             \* index of the sub-action whose effect runs next
  doc,             \* the state the undo/redo closures restore (a version number)
  nextActionId,    \* generateId() of the history manager, as a counter
  histCall,        \* the history call made last and what it returned
  ran,             \* effects invoked by the current/last undo()/redo() call
  \* ---- a Transition object (HistoryManager.js:399-596)
  transition,      \* the Transition object: its fields
  transCall,       \* the method of the transition called last, what it returned
  \* ---- the project manager (ProjectManager.js:15-24)
  currentProject,  \* this.currentProject: <<>> is null, else <<the project>>
  projectDirty,    \* this.isDirty of the project manager
  autosaveTimer,   \* this.autosaveTimer: an interval id, 0 for null
  autosaveEnabled, \* this.autosaveEnabled
  lastSaveTime,    \* this.lastSaveTime: <<>> is null, else <<time>>
  activeTimers,    \* the interval timers that are running
  nextTimerId,     \* setInterval(): ids are fresh, modelled as a counter
  now,             \* Date.now(), in seconds
  stored,          \* the autosave entry of localStorage: <<>> or <<json>>
  projCall,        \* the project manager call made last and its outcome
  \* ---- the export pipeline (export/index.js:66-71, ExportJob.js:16-29)
  jobs,            \* this.jobs of the pipeline: job id -> the ExportJob
  exports,         \* job id -> the startExport call on the job and its recorder
  nextJobId,       \* generateJobId(): ids are fresh, modelled as a counter
  \* ---- the mediaStore (src/unnamed/part_001:5-22)
  mediaTracks,     \* state.tracks of the mediaStore: track id -> its items
  mediaDuration,   \* state.duration of the mediaStore
  mediaNextId,     \* uuidv4(): ids are fresh, modelled as a counter
  \* ---- handleFilesAdded of the application (src/unnamed/part_012:37-54)
  pendingThumbnails,\* the <<trackId, itemId>> whose thumbnail is being generated
  thumbCall        \* the thumbnail callback run last: <<>> or <<its arguments, found>>

storeVars == <<tracks, duration, selectedItemId, nextItemId>>
editVars  == <<playhead, isDirty, nextKfId, storeCall>>
clipVars  == <<clip, newClip, clipCall, nextClipId>>
kfVars    == <<keyframes, nextKeyframeId, enabled, kfCall>>
histVars  == <<undoStack, redoStack, isExecuting, batchMode, batchActions,
               pc, cur, idx, doc, nextActionId, histCall, ran>>
transVars == <<transition, transCall>>
projVars == <<currentProject, projectDirty, autosaveTimer, autosaveEnabled, lastSaveTime, activeTimers, nextTimerId, now, stored, projCall>>
exportVars == <<jobs, exports, nextJobId>>
mediaVars == <<mediaTracks, mediaDuration, mediaNextId>>
thumbVars == <<pendingThumbnails, thumbCall>>
vars      == <<storeVars, editVars, clipVars, kfVars, histVars, transVars, projVars, exportVars, mediaVars, thumbVars>>

\* what the operations on the clips of the store leave alone, what the
\* other store operations do, and what a history operation does
notStoreVars == <<editVars, clipVars, kfVars, histVars, transVars, projVars, exportVars, mediaVars, thumbVars>>
notEditVars  == <<clipVars, kfVars, histVars, transVars, projVars, exportVars, mediaVars, thumbVars>>
notClipVars  == <<storeVars, editVars, kfVars, histVars, transVars, projVars, exportVars, mediaVars, thumbVars>>
notKfVars    == <<storeVars, editVars, clipVars, histVars, transVars, projVars, exportVars, mediaVars, thumbVars>>
notHistVars  == <<storeVars, editVars, clipVars, kfVars, transVars, projVars, exportVars, mediaVars, thumbVars>>
notThumbVars == <<storeVars, editVars, clipVars, kfVars, histVars, transVars, projVars, exportVars, mediaVars>>
notMediaVars == <<storeVars, editVars, clipVars, kfVars, histVars, transVars, projVars, exportVars, thumbVars>>
notExportVars == <<storeVars, editVars, clipVars, kfVars, histVars, transVars, projVars, mediaVars, thumbVars>>
notProjVars == <<storeVars, editVars, clipVars, kfVars, histVars, transVars, exportVars, mediaVars, thumbVars>>
notTransVars == <<storeVars, editVars, clipVars, kfVars, histVars, projVars, exportVars, mediaVars, thumbVars>>

----------------------------------------------------------------------------
(* Bounds of the model *)

\* clips ever created in a run
MaxItems == 2
\* keyframes ever created in a run, per generateId
MaxKeyframes == 2
\* ids the generateId of the AudioClip module ever hands out in a run
MaxClipIds == 3
\* interval timers ever started in a run
MaxTimers == 3
\* the latest time the clock reaches in a run, in seconds
MaxTime == 8
\* export jobs ever created in a run
MaxJobs == 2
\* history actions ever created in a run
MaxActions == 4
\* options.maxSize handed to the HistoryManager constructor
HistMaxSize == 2

----------------------------------------------------------------------------
(* Helpers *)

Max2(a, b) == IF a >= b THEN a ELSE b
Min2(a, b) == IF a <= b THEN a ELSE b
Abs(x) == IF x < 0 THEN -x ELSE x

Front(s) == SubSeq(s, 1, Len(s) - 1)
Last(s)  == s[Len(s)]

Range(s) == {s[i] : i \in 1..Len(s)}

RECURSIVE SetMax(_)
SetMax(S) ==
  IF S = {} THEN 0
  ELSE LET x == CHOOSE y \in S : TRUE
           r == S \ {x}
       IN IF r = {} THEN x ELSE Max2(x, SetMax(r))

\* exact fractions n/d with d > 0, in lowest terms: what the floating-point
\* expressions of the code compute on the values of the model
RECURSIVE Gcd(_, _)
Gcd(a, b) == IF b = 0 THEN a ELSE Gcd(b, a % b)

Frac(n, d) ==
  LET g == Gcd(Abs(n), d)
  IN [n |-> n \div g, d |-> d \div g]
FInt(i) == [n |-> i, d |-> 1]
FAdd(a, b) == Frac(a.n * b.d + b.n * a.d, a.d * b.d)
FSub(a, b) == Frac(a.n * b.d - b.n * a.d, a.d * b.d)
FMul(a, b) == Frac(a.n * b.n, a.d * b.d)
FLess(a, b) == a.n * b.d < b.n * a.d
FLeq(a, b) == a.n * b.d <= b.n * a.d

----------------------------------------------------------------------------
(* Editor store *)

TrackIds == {"video-track", "audio-track"}

\* a track id no track has
UnknownTrack == "no-track"

\* duration given to a clip whose spec names none (5 s)
DefaultItemDuration == 50
\* smallest duration updateItemDuration stores (0.1 s)
MinItemDuration == 1

\* arguments the callers pass; <<>> is an absent (undefined) field
StartTimes == {0}
Durations  == {10}
StartOpts  == {<<>>} \cup {<<s>> : s \in StartTimes}
DurationOpts == {<<>>} \cup {<<d>> : d \in Durations}
NewDurations == {0, 40}
NewStarts  == {-10, 15}

AllItems(trs) == UNION {Range(trs[t]) : t \in TrackIds}

\* let maxEndTime = 0; tracks.forEach(... if (endTime > maxEndTime) ...)
RecalcDuration(trs) ==
  Max2(0, SetMax({it.startTime + it.duration : it \in AllItems(trs)}))

\* item.name || 'Untitled'; a name is the sequence of its parts
DefaultName == <<"Untitled">>

\* newItem of addMediaItem: `item.startTime || get().duration`,
\* `item.duration || 5`, then ...item overrides with the fields it has;
\* trimStart and volumeKeyframes are fields only the caller's item brings
\* (<<>> while the clip has no such field)
NewItem(id, startOpt, durOpt, trimOpt, curDuration) ==
  [id        |-> id,
   name      |-> DefaultName,
   startTime |-> IF startOpt = <<>> THEN curDuration ELSE startOpt[1],
   duration  |-> IF durOpt = <<>> THEN DefaultItemDuration ELSE durOpt[1],
   trimStart |-> trimOpt,
   volumeKeyframes |-> <<>>]

\* state.tracks.map(track => track.id === trackId
\*   ? {...track, items: track.items.map(item => item.id === itemId
\*       ? {...item, [field]: value} : item)} : track)
SetItemField(trs, trackId, itemId, field, value) ==
  [t \in TrackIds |->
     IF t = trackId
       THEN [i \in 1..Len(trs[t]) |->
               IF trs[t][i].id = itemId
                 THEN [trs[t][i] EXCEPT ![field] = value]
                 ELSE trs[t][i]]
       ELSE trs[t]]

FilterItems(s, itemId) == SelectSeq(s, LAMBDA it : it.id # itemId)

\* Math.max(state.duration, newItem.startTime + newItem.duration)
AddMediaItemDuration(dur, newItem) ==
  Max2(dur, newItem.startTime + newItem.duration)

AddMediaItem(trackId, startOpt, durOpt, trimOpt) ==
  /\ nextItemId <= MaxItems
  /\ LET newItem == NewItem(nextItemId, startOpt, durOpt, trimOpt, duration)
     IN /\ tracks' = [t \in TrackIds |->
                        IF t = trackId THEN Append(tracks[t], newItem)
                                       ELSE tracks[t]]
        /\ duration' = AddMediaItemDuration(duration, newItem)
  /\ nextItemId' = nextItemId + 1
  /\ UNCHANGED notStoreVars
  /\ UNCHANGED selectedItemId

RemoveMediaItem(trackId, itemId) ==
  /\ tracks' = [t \in TrackIds |->
                  IF t = trackId THEN FilterItems(tracks[t], itemId)
                                 ELSE tracks[t]]
  /\ duration' = RecalcDuration(tracks')
  /\ selectedItemId' = IF selectedItemId = itemId THEN 0 ELSE selectedItemId
  /\ UNCHANGED notStoreVars
  /\ UNCHANGED nextItemId

MoveMediaItem(trackId, itemId, newStartTime) ==
  /\ tracks' = SetItemField(tracks, trackId, itemId, "startTime",
                            Max2(0, newStartTime))
  /\ duration' = RecalcDuration(tracks')
  /\ UNCHANGED notStoreVars
  /\ UNCHANGED <<selectedItemId, nextItemId>>

UpdateItemDuration(trackId, itemId, newDuration) ==
  /\ tracks' = SetItemField(tracks, trackId, itemId, "duration",
                            Max2(MinItemDuration, newDuration))
  /\ duration' = RecalcDuration(tracks')
  /\ UNCHANGED notStoreVars
  /\ UNCHANGED <<selectedItemId, nextItemId>>

\* ids the callers name: every clip id and one no clip has, every track id
\* and one no track has
CallTrackIds == TrackIds \cup {UnknownTrack}
CallItemIds  == 1..(MaxItems + 1)

StoreNext ==
  \/ \E t \in CallTrackIds, s \in StartOpts, d \in DurationOpts :
       AddMediaItem(t, s, d, <<>>)
  \/ \E t \in CallTrackIds, i \in CallItemIds : RemoveMediaItem(t, i)
  \/ \E t \in CallTrackIds, i \in CallItemIds, s \in NewStarts :
       MoveMediaItem(t, i, s)
  \/ \E t \in CallTrackIds, i \in CallItemIds, d \in NewDurations :
       UpdateItemDuration(t, i, d)

----------------------------------------------------------------------------
(* Editor store: reordering, moving between tracks, selection, playhead *)

\* the start index of Array.prototype.splice: a negative one counts from
\* the end, and the result is clamped to 0..len
SpliceStart(len, start) ==
  IF start < 0 THEN Max2(len + start, 0) ELSE Min2(start, len)

\* const [removed] = items.splice(fromIndex, 1): <<>> is `undefined`
SpliceRemoved(items, fromIndex) ==
  LET k == SpliceStart(Len(items), fromIndex)
  IN IF k < Len(items) THEN <<items[k + 1]>> ELSE <<>>

\* items after items.splice(fromIndex, 1)
SpliceRest(items, fromIndex) ==
  LET k == SpliceStart(Len(items), fromIndex)
  IN IF k < Len(items)
       THEN SubSeq(items, 1, k) \o SubSeq(items, k + 2, Len(items))
       ELSE items

\* items after items.splice(toIndex, 0, x)
SpliceInsert(items, toIndex, x) ==
  LET k == SpliceStart(Len(items), toIndex)
  IN SubSeq(items, 1, k) \o <<x>> \o SubSeq(items, k + 1, Len(items))

\* faulty variant: inserts the removed clip one place too far
ReorderSeqOffByOne(items, fromIndex, toIndex) ==
  SpliceInsert(SpliceRest(items, fromIndex), toIndex + 1,
               SpliceRemoved(items, fromIndex)[1])

\* the two splices of reorderItems, for a fromIndex that removes a clip
ReorderSeq(items, fromIndex, toIndex) ==
  SpliceInsert(SpliceRest(items, fromIndex), toIndex,
               SpliceRemoved(items, fromIndex)[1])

RECURSIVE SumDurations(_, _)
SumDurations(items, n) ==
  IF n = 0 THEN 0 ELSE SumDurations(items, n - 1) + items[n].duration

\* let currentTime = 0; items.map(item => {...item, startTime: currentTime},
\* currentTime += item.duration)
Repack(items) ==
  [i \in 1..Len(items) |->
     [items[i] EXCEPT !.startTime = SumDurations(items, i - 1)]]

\* with `removed` undefined the map reads item.duration of undefined: the
\* callback of set throws a TypeError and the state is not replaced
ReorderThrows(trs, trackId, fromIndex) ==
  /\ trackId \in TrackIds
  /\ SpliceRemoved(trs[trackId], fromIndex) = <<>>

StoreCall(op, threw, ret) == [op |-> op, threw |-> threw, ret |-> ret]

ReorderItems(trackId, fromIndex, toIndex) ==
  /\ IF ReorderThrows(tracks, trackId, fromIndex)
       THEN /\ storeCall' = StoreCall("reorderItems", TRUE, <<>>)
            /\ UNCHANGED <<tracks, duration>>
       ELSE /\ tracks' = [t \in TrackIds |->
                            IF t = trackId
                              THEN Repack(ReorderSeq(tracks[t], fromIndex,
                                                     toIndex))
                              ELSE tracks[t]]
            /\ duration' = RecalcDuration(tracks')
            /\ storeCall' = StoreCall("reorderItems", FALSE, <<>>)
  /\ UNCHANGED notEditVars
  /\ UNCHANGED <<selectedItemId, nextItemId, playhead, isDirty, nextKfId>>

\* track.items.find(item => item.id === itemId): <<>> is `undefined`
FindItem(items, itemId) ==
  LET found == SelectSeq(items, LAMBDA it : it.id = itemId)
  IN IF found = <<>> THEN <<>> ELSE <<found[1]>>

\* movedItem of moveItemToTrack: null, or what find returned on fromTrackId
MovedItem(trs, fromTrackId, itemId) ==
  IF fromTrackId \in TrackIds THEN FindItem(trs[fromTrackId], itemId)
                              ELSE <<>>

\* faulty variant: copies the clip and leaves it on the source track
MoveItemToTrackCopies(trs, fromTrackId, toTrackId, itemId, newStartTime) ==
  LET movedItem == MovedItem(trs, fromTrackId, itemId)
  IN [t \in TrackIds |->
        IF t = toTrackId /\ movedItem # <<>>
          THEN Append(trs[t],
                      [movedItem[1] EXCEPT !.startTime = newStartTime])
          ELSE trs[t]]

\* the two maps of moveItemToTrack
MoveItemToTrackTracks(trs, fromTrackId, toTrackId, itemId, newStartTime) ==
  LET movedItem == MovedItem(trs, fromTrackId, itemId)
      removed == [t \in TrackIds |->
                    IF t = fromTrackId THEN FilterItems(trs[t], itemId)
                                       ELSE trs[t]]
  IN [t \in TrackIds |->
        IF t = toTrackId /\ movedItem # <<>>
          THEN Append(removed[t],
                      [movedItem[1] EXCEPT !.startTime = newStartTime])
          ELSE removed[t]]

MoveItemToTrack(fromTrackId, toTrackId, itemId, newStartTime) ==
  /\ tracks' = MoveItemToTrackTracks(tracks, fromTrackId, toTrackId, itemId,
                                     newStartTime)
  /\ duration' = RecalcDuration(tracks')
  /\ storeCall' = StoreCall("moveItemToTrack", FALSE, <<>>)
  /\ UNCHANGED notEditVars
  /\ UNCHANGED <<selectedItemId, nextItemId, playhead, isDirty, nextKfId>>

SelectItem(itemId) ==
  /\ selectedItemId' = itemId
  /\ UNCHANGED notStoreVars
  /\ UNCHANGED <<tracks, duration, nextItemId>>

\* Math.max(0, Math.min(get().duration, time))
SetPlayhead(time) ==
  /\ playhead' = Max2(0, Min2(duration, time))
  /\ UNCHANGED notEditVars
  /\ UNCHANGED <<storeVars, isDirty, nextKfId, storeCall>>

\* indices the callers pass: in range, negative and past the end
CallIndices == -1..MaxItems
\* indices of the clips of a full track; past the end on a shorter one
ClipIndices == 0..(MaxItems - 1)
\* start times handed to moveItemToTrack
TrackStarts == {15}

ArrangeNext ==
  \/ \E t \in TrackIds, d \in DurationOpts : AddMediaItem(t, <<>>, d, <<>>)
  \/ \E t \in TrackIds, f \in ClipIndices, g \in ClipIndices :
       ReorderItems(t, f, g)
  \/ \E f \in TrackIds, t \in TrackIds, i \in 1..MaxItems,
        s \in TrackStarts : MoveItemToTrack(f, t, i, s)

SelectionNext ==
  \/ \E t \in CallTrackIds, s \in StartOpts, d \in DurationOpts :
       AddMediaItem(t, s, d, <<>>)
  \/ \E t \in CallTrackIds, i \in CallItemIds : RemoveMediaItem(t, i)
  \/ \E i \in CallItemIds : SelectItem(i)

----------------------------------------------------------------------------
(* Editor store: volume keyframes of a clip, split at the playhead *)

\* keyframes closer than this to a new one are replaced: 0.01 s, in
\* hundredths of a second
VolumeKfTolerance == 1

Keyframe(id, time, value, easing) ==
  [id |-> id, time |-> time, value |-> value, easing |-> easing]

\* item.volumeKeyframes || []
KeyframesOf(item) ==
  IF item.volumeKeyframes = <<>> THEN <<>> ELSE item.volumeKeyframes[1]

\* x placed behind the keyframes of a sorted list that are not later
InsertByTime(sorted, x) ==
  LET k == Cardinality({i \in 1..Len(sorted) : sorted[i].time <= x.time})
  IN SubSeq(sorted, 1, k) \o <<x>> \o SubSeq(sorted, k + 1, Len(sorted))

\* faulty variant: leaves the list in the order it has
UnsortedByTime(kfs) == kfs

\* keyframes.sort((a, b) => a.time - b.time): a stable sort
RECURSIVE SortByTime(_)
SortByTime(kfs) ==
  IF kfs = <<>> THEN <<>>
  ELSE InsertByTime(SortByTime(Front(kfs)), Last(kfs))

\* newKeyframes of addVolumeKeyframe: filter (times are tenths of a second),
\* push, sort
AddVolumeKf(kfs, id, time, value) ==
  SortByTime(Append(SelectSeq(kfs,
                              LAMBDA kf : Abs(kf.time - time) * 10
                                            > VolumeKfTolerance),
                    Keyframe(id, time, value, "linear")))

RemoveKf(kfs, keyframeId) ==
  SelectSeq(kfs, LAMBDA kf : kf.id # keyframeId)

AddVolumeKeyframe(trackId, itemId, time, value) ==
  /\ nextKfId <= MaxKeyframes
  /\ LET item == MovedItem(tracks, trackId, itemId)
     IN IF item = <<>>
          THEN UNCHANGED <<tracks, nextKfId>>
          ELSE /\ tracks' = SetItemField(tracks, trackId, itemId,
                              "volumeKeyframes",
                              <<AddVolumeKf(KeyframesOf(item[1]), nextKfId,
                                            time, value)>>)
               /\ nextKfId' = nextKfId + 1
  /\ isDirty' = TRUE
  /\ storeCall' = StoreCall("addVolumeKeyframe", FALSE, <<>>)
  /\ UNCHANGED notEditVars
  /\ UNCHANGED <<duration, selectedItemId, nextItemId, playhead>>

RemoveVolumeKeyframe(trackId, itemId, keyframeId) ==
  /\ LET item == MovedItem(tracks, trackId, itemId)
     IN IF item = <<>>
          THEN UNCHANGED tracks
          ELSE tracks' = SetItemField(tracks, trackId, itemId,
                           "volumeKeyframes",
                           <<RemoveKf(KeyframesOf(item[1]), keyframeId)>>)
  /\ isDirty' = TRUE
  /\ storeCall' = StoreCall("removeVolumeKeyframe", FALSE, <<>>)
  /\ UNCHANGED notEditVars
  /\ UNCHANGED <<duration, selectedItemId, nextItemId, playhead, nextKfId>>

\* the suffix splitClip appends to the name of the new clip
SplitSuffix == <<" (split)">>

\* faulty variant: lets a split at either end of the clip through
SplitTimeInvalidStrict(splitTime, itemDuration) ==
  splitTime < 0 \/ splitTime > itemDuration

\* splitTime <= 0 || splitTime >= item.duration
SplitTimeInvalid(splitTime, itemDuration) ==
  splitTime <= 0 \/ splitTime >= itemDuration

\* faulty variant: the new clip keeps the duration of the whole clip
SplitNewItemWhole(item, id, at) ==
  [item EXCEPT !.id = id, !.name = item.name \o SplitSuffix,
               !.startTime = at]

\* newItem of splitClip: {...item, id, name, startTime, duration}
SplitNewItem(item, id, at) ==
  [item EXCEPT !.id = id, !.name = item.name \o SplitSuffix,
               !.startTime = at,
               !.duration = item.duration - (at - item.startTime)]

\* splitClip returns null without a set()
SplitClipNull(trs, trackId, itemId, at) ==
  LET item == MovedItem(trs, trackId, itemId)
  IN \/ item = <<>>
     \/ SplitTimeInvalid(at - item[1].startTime, item[1].duration)

SplitClip(trackId, itemId) ==
  /\ IF SplitClipNull(tracks, trackId, itemId, playhead)
       THEN /\ storeCall' = StoreCall("splitClip", FALSE, <<>>)
            /\ UNCHANGED <<tracks, nextItemId, isDirty>>
       ELSE /\ nextItemId <= MaxItems
            /\ LET item == MovedItem(tracks, trackId, itemId)[1]
                   newItem == SplitNewItem(item, nextItemId, playhead)
                   shortened == SetItemField(tracks, trackId, itemId,
                                  "duration", playhead - item.startTime)
               IN tracks' = [t \in TrackIds |->
                               IF t = trackId
                                 THEN Append(shortened[t], newItem)
                                 ELSE shortened[t]]
            /\ isDirty' = TRUE
            /\ nextItemId' = nextItemId + 1
            /\ storeCall' = StoreCall("splitClip", FALSE, <<nextItemId>>)
  /\ UNCHANGED notEditVars
  /\ UNCHANGED <<duration, selectedItemId, playhead, nextKfId>>

\* every arrangement operation, with ids and indices that name a clip and
\* ones that name none
PlayheadTimes == {5}
\* a start time and a duration no clip should end up with
BadStarts == {-10}
BadDurations == {0}

TimelineNext ==
  \/ \E t \in CallTrackIds : AddMediaItem(t, <<>>, <<>>, <<>>)
  \/ \E t \in CallTrackIds, i \in CallItemIds : RemoveMediaItem(t, i)
  \/ \E t \in CallTrackIds, i \in CallItemIds, s \in BadStarts :
       MoveMediaItem(t, i, s)
  \/ \E f \in CallTrackIds, t \in CallTrackIds, i \in CallItemIds,
        s \in BadStarts : MoveItemToTrack(f, t, i, s)
  \/ \E t \in CallTrackIds, f \in CallIndices, g \in ClipIndices :
       ReorderItems(t, f, g)
  \/ \E t \in CallTrackIds, i \in CallItemIds, d \in BadDurations :
       UpdateItemDuration(t, i, d)
  \/ \E p \in PlayheadTimes : SetPlayhead(p)
  \/ \E t \in CallTrackIds, i \in CallItemIds : SplitClip(t, i)

----------------------------------------------------------------------------
(* Editor store: the asynchronous thumbnail of an added file *)

\* faulty variant: the clip is looked for on every track
UpdateItemThumbnailAnyTrack(trs, trackId, itemId, thumbnail) ==
  [t \in TrackIds |->
     [k \in 1..Len(trs[t]) |->
        IF trs[t][k].id = itemId
          THEN ("thumbnail" :> <<thumbnail>>) @@ trs[t][k]
          ELSE trs[t][k]]]

\* tracks after updateItemThumbnail(trackId, itemId, thumbnail):
\* {...item, thumbnail} on the item of the track with this id
UpdateItemThumbnailTracks(trs, trackId, itemId, thumbnail) ==
  [t \in TrackIds |->
     IF t = trackId
       THEN [k \in 1..Len(trs[t]) |->
               IF trs[t][k].id = itemId
                 THEN ("thumbnail" :> <<thumbnail>>) @@ trs[t][k]
                 ELSE trs[t][k]]
       ELSE trs[t]]

\* trackId of handleFilesAdded
TrackOfType(type) == IF type = "audio" THEN "audio-track" ELSE "video-track"

\* handleFilesAdded for one file: addMediaItem(trackId, {name, path, type,
\* duration}), then generateThumbnail(...) is started unless the file is
\* audio
FilesAdded(type, fileDuration) ==
  /\ nextItemId <= MaxItems
  /\ LET trackId == TrackOfType(type)
         newItem == NewItem(nextItemId, <<>>, <<fileDuration>>, <<>>,
                            duration)
     IN /\ tracks' = [t \in TrackIds |->
                        IF t = trackId THEN Append(tracks[t], newItem)
                                       ELSE tracks[t]]
        /\ duration' = AddMediaItemDuration(duration, newItem)
        /\ pendingThumbnails' =
             IF type # "audio"
               THEN pendingThumbnails \cup {<<trackId, nextItemId>>}
               ELSE pendingThumbnails
  /\ nextItemId' = nextItemId + 1
  /\ UNCHANGED <<selectedItemId, thumbCall>>
  /\ UNCHANGED <<editVars, clipVars, kfVars, histVars, transVars, projVars,
                 exportVars, mediaVars>>

\* the promise of generateThumbnail resolves with a thumbnail:
\* updateItemThumbnail(trackId, itemId, thumbnail)
ThumbnailReady(trackId, itemId, thumbnail) ==
  /\ <<trackId, itemId>> \in pendingThumbnails
  /\ tracks' = UpdateItemThumbnailTracks(tracks, trackId, itemId, thumbnail)
  /\ pendingThumbnails' = pendingThumbnails \ {<<trackId, itemId>>}
  /\ thumbCall' =
       <<[trackId |-> trackId, itemId |-> itemId,
          found |-> \E k \in 1..Len(tracks[trackId]) :
                      tracks[trackId][k].id = itemId]>>
  /\ UNCHANGED <<duration, selectedItemId, nextItemId>>
  /\ UNCHANGED <<editVars, clipVars, kfVars, histVars, transVars, projVars,
                 exportVars, mediaVars>>

\* the promise is rejected, or resolves with no thumbnail: nothing is stored
ThumbnailFails(trackId, itemId) ==
  /\ <<trackId, itemId>> \in pendingThumbnails
  /\ pendingThumbnails' = pendingThumbnails \ {<<trackId, itemId>>}
  /\ UNCHANGED <<storeVars, thumbCall>>
  /\ UNCHANGED <<editVars, clipVars, kfVars, histVars, transVars, projVars,
                 exportVars, mediaVars>>

FileTypes == {"video", "audio"}
FileDurations == {10}
Thumbnails == {"data:image/jpeg"}

\* files are added and their thumbnails arrive while the user removes,
\* moves and selects clips
ThumbnailNext ==
  \/ \E ty \in FileTypes, d \in FileDurations : FilesAdded(ty, d)
  \/ \E t \in TrackIds, i \in 1..MaxItems, th \in Thumbnails :
       ThumbnailReady(t, i, th)
  \/ \E t \in TrackIds, i \in 1..MaxItems : ThumbnailFails(t, i)
  \/ \E t \in TrackIds, i \in 1..MaxItems : RemoveMediaItem(t, i)
  \/ \E f \in TrackIds, t \in TrackIds, i \in 1..MaxItems,
        s \in TrackStarts : MoveItemToTrack(f, t, i, s)
  \/ \E i \in 1..MaxItems : SelectItem(i)

----------------------------------------------------------------------------
(* mediaStore *)

\* item of addMediaItem: `file.duration || 5`, startTime from
\* calculateStartTime(trackId)
MediaItem(id, durOpt, startTime) ==
  [id        |-> id,
   duration  |-> IF durOpt = <<>> \/ durOpt = <<0>>
                   THEN DefaultItemDuration ELSE durOpt[1],
   startTime |-> startTime,
   thumbnail |-> <<>>]

\* calculateStartTime(trackId): the end of the last item of the track
CalculateStartTime(trs, trackId) ==
  IF trackId \notin TrackIds \/ trs[trackId] = <<>> THEN 0
  ELSE Last(trs[trackId]).startTime + Last(trs[trackId]).duration

\* recalculateStartTimes(trackId)
RecalculateStartTimes(trs, trackId) ==
  [t \in TrackIds |-> IF t = trackId THEN Repack(trs[t]) ELSE trs[t]]

\* updateDuration(): the maximum of startTime + duration over all tracks
UpdateDuration(trs) == RecalcDuration(trs)

\* track.items.filter(item => item.id !== itemId) on the track trackId
MediaWithout(trs, trackId, itemId) ==
  [t \in TrackIds |->
     IF t = trackId THEN SelectSeq(trs[t], LAMBDA it : it.id # itemId)
     ELSE trs[t]]

\* the item of moveMediaItem found on the source track: <<>> is null
MediaFound(trs, trackId, itemId) ==
  IF trackId \in TrackIds
    THEN SelectSeq(trs[trackId], LAMBDA it : it.id = itemId)
    ELSE <<>>

\* mediaStore.addMediaItem(trackId, file)
MediaAddItem(trackId, durOpt) ==
  /\ mediaNextId <= MaxItems
  /\ LET item == MediaItem(mediaNextId, durOpt,
                          CalculateStartTime(mediaTracks, trackId))
         trs == [t \in TrackIds |->
                   IF t = trackId THEN Append(mediaTracks[t], item)
                   ELSE mediaTracks[t]]
     IN /\ mediaTracks' = trs
        /\ mediaDuration' = UpdateDuration(trs)
  /\ mediaNextId' = mediaNextId + 1
  /\ UNCHANGED notMediaVars

\* mediaStore.removeMediaItem(trackId, itemId)
MediaRemoveItem(trackId, itemId) ==
  /\ mediaTracks' = MediaWithout(mediaTracks, trackId, itemId)
  /\ mediaDuration' = UpdateDuration(mediaTracks')
  /\ UNCHANGED mediaNextId
  /\ UNCHANGED notMediaVars

\* mediaStore.moveMediaItem(sourceTrackId, targetTrackId, itemId, newIndex)
MediaMoveItem(sourceTrackId, targetTrackId, itemId, newIndex) ==
  /\ LET found == MediaFound(mediaTracks, sourceTrackId, itemId)
         removed == MediaWithout(mediaTracks, sourceTrackId, itemId)
         added == [t \in TrackIds |->
                     IF t = targetTrackId
                       THEN SpliceInsert(removed[t], newIndex, found[1])
                       ELSE removed[t]]
     IN mediaTracks' =
          IF found = <<>> THEN mediaTracks
          ELSE RecalculateStartTimes(added, targetTrackId)
  /\ UNCHANGED <<mediaDuration, mediaNextId>>
  /\ UNCHANGED notMediaVars

\* mediaStore.reorderItems(trackId, fromIndex, toIndex), for a fromIndex
\* that names an item of the track
MediaReorderItems(trackId, fromIndex, toIndex) ==
  /\ trackId \in TrackIds => fromIndex < Len(mediaTracks[trackId])
  /\ mediaTracks' =
       RecalculateStartTimes(
         [t \in TrackIds |->
            IF t = trackId
              THEN ReorderSeq(mediaTracks[t], fromIndex, toIndex)
              ELSE mediaTracks[t]],
         trackId)
  /\ UNCHANGED <<mediaDuration, mediaNextId>>
  /\ UNCHANGED notMediaVars

\* mediaStore.updateItemDuration(trackId, itemId, duration)
MediaUpdateItemDuration(trackId, itemId, newDuration) ==
  /\ mediaTracks' =
       RecalculateStartTimes(
         SetItemField(mediaTracks, trackId, itemId, "duration", newDuration),
         trackId)
  /\ mediaDuration' = UpdateDuration(mediaTracks')
  /\ UNCHANGED mediaNextId
  /\ UNCHANGED notMediaVars

MediaIndices == {0, 1}

\* the mediaStore under its operations on the items
MediaNext ==
  \/ \E t \in CallTrackIds, d \in DurationOpts : MediaAddItem(t, d)
  \/ \E t \in CallTrackIds, i \in CallItemIds : MediaRemoveItem(t, i)
  \/ \E s \in CallTrackIds, t \in CallTrackIds, i \in CallItemIds,
        k \in MediaIndices : MediaMoveItem(s, t, i, k)
  \/ \E t \in CallTrackIds, a \in MediaIndices, b \in MediaIndices :
        MediaReorderItems(t, a, b)
  \/ \E t \in CallTrackIds, i \in CallItemIds, d \in NewDurations :
        MediaUpdateItemDuration(t, i, d)

----------------------------------------------------------------------------
(* AudioClip *)

\* keyframes closer than this to a new one are replaced: 0.01 s, in
\* hundredths of a second
ClipKfTolerance == 1
\* the range of a volume value, in tenths
MinVolume == 0
MaxVolume == 10

\* name of a clip constructed without one
DefaultClipName == <<"Untitled Audio">>

\* options.x || 0
OrZero(opt) == IF opt = <<>> THEN 0 ELSE opt[1]

\* DEFAULT_AUDIO_SETTINGS: the volume in tenths, and the fades (0.5 s)
DefaultVolume == 10
DefaultFadeDuration == 5
DefaultFade ==
  [enabled |-> FALSE, duration |-> DefaultFadeDuration, type |-> "linear"]

\* options.x ?? the default
OrDefault(opt, default) == IF opt = <<>> THEN default ELSE opt[1]

\* new AudioClip(options) without audio settings in the options
AudioClipOf(id, name, startOpt, durOpt, trimStartOpt, trimEndOpt, origOpt) ==
  [id |-> id, name |-> name,
   startTime |-> OrZero(startOpt), duration |-> OrZero(durOpt),
   trimStart |-> OrZero(trimStartOpt), trimEnd |-> OrZero(trimEndOpt),
   originalDuration |-> OrZero(origOpt),
   volume |-> DefaultVolume, muted |-> FALSE,
   fadeIn |-> DefaultFade, fadeOut |-> DefaultFade,
   volumeKeyframes |-> <<>>]

\* the audio settings the constructor takes from the options: the fades are
\* the defaults overlaid with the fields of options.fadeIn / fadeOut
WithSettings(c, volumeOpt, mutedOpt, fadeInOpt, fadeOutOpt) ==
  [c EXCEPT !.volume = OrDefault(volumeOpt, DefaultVolume),
            !.muted = OrDefault(mutedOpt, FALSE),
            !.fadeIn = OrDefault(fadeInOpt, DefaultFade),
            !.fadeOut = OrDefault(fadeOutOpt, DefaultFade)]

\* Math.max(0, Math.min(1, value))
ClampVolume(value) == Max2(MinVolume, Min2(MaxVolume, value))

\* volumeKeyframes after clip.addVolumeKeyframe(time, value)
ClipAddKf(kfs, id, time, value) ==
  SortByTime(Append(SelectSeq(kfs,
                              LAMBDA kf : Abs(kf.time - time) * 10
                                            > ClipKfTolerance),
                    Keyframe(id, time, ClampVolume(value), "linear")))

\* splitTime <= 0 || splitTime >= this.duration
ClipSplitInvalid(c, splitTime) == splitTime <= 0 \/ splitTime >= c.duration

\* newClip.volumeKeyframes: the kfs at and after the split point,
\* their times made relative to the new clip
SplitKeyframes(kfs, splitTime) ==
  LET later == SelectSeq(kfs, LAMBDA kf : kf.time >= splitTime)
  IN [i \in 1..Len(later) |->
        [later[i] EXCEPT !.time = later[i].time - splitTime]]

\* this.volumeKeyframes after the split
KeptKeyframes(kfs, splitTime) ==
  SelectSeq(kfs, LAMBDA kf : kf.time < splitTime)

\* the clip split() returns
SplitNewClip(c, id, splitTime) ==
  [AudioClipOf(id, c.name \o SplitSuffix,
               <<c.startTime + splitTime>>, <<c.duration - splitTime>>,
               <<c.trimStart + splitTime>>, <<c.trimEnd>>,
               <<c.originalDuration>>)
     EXCEPT !.volume = c.volume,
            !.muted = c.muted,
            !.volumeKeyframes = SplitKeyframes(c.volumeKeyframes, splitTime)]

\* `this` after split()
SplitThisClip(c, splitTime) ==
  [c EXCEPT !.duration = splitTime,
            !.trimEnd = c.originalDuration - c.trimStart - splitTime,
            !.volumeKeyframes = KeptKeyframes(c.volumeKeyframes, splitTime)]

\* the index of `after` in the loop of getValueAtTime and of
\* getKeyframeVolumeAtTime: the first keyframe later than `time`, 0 when
\* the loop ends without one
AfterIndex(kfs, time) ==
  IF \E i \in 1..Len(kfs) : kfs[i].time > time
    THEN CHOOSE i \in 1..Len(kfs) :
           /\ kfs[i].time > time
           /\ \A j \in 1..(i - 1) : kfs[j].time <= time
    ELSE 0

\* the index of `before`: the keyframe the loop saw last before it stopped,
\* 0 when it saw none
BeforeIndex(kfs, time) ==
  IF AfterIndex(kfs, time) = 0 THEN Len(kfs) ELSE AfterIndex(kfs, time) - 1

\* applyFadeCurve(progress, type): the linear and the exponential curve
\* (the logarithmic one, Math.log10(1 + 9 * progress), is no fraction)
ApplyFadeCurve(progress, type) ==
  IF type = "exponential" THEN FMul(progress, progress) ELSE progress

\* interpolate(start, end, progress, easing)
ClipInterpolate(start, end, progress, easing) ==
  LET one == FInt(1)
      inv == FSub(one, progress)
      dbl == FAdd(FMul(FInt(-2), progress), FInt(2))
      t == CASE easing = "ease-in" -> FMul(progress, progress)
             [] easing = "ease-out" -> FSub(one, FMul(inv, inv))
             [] easing = "ease-in-out" ->
                  IF FLess(progress, Frac(1, 2))
                    THEN FMul(FInt(2), FMul(progress, progress))
                    ELSE FSub(one, FMul(Frac(1, 2), FMul(dbl, dbl)))
             [] OTHER -> progress
  IN FAdd(FInt(start), FMul(FInt(end - start), t))

\* getKeyframeVolumeAtTime(time): the loop over the sorted copy is the loop
\* of KeyframeTrack.getValueAtTime
KeyframeVolumeAtTime(c, time) ==
  LET sorted == SortByTime(c.volumeKeyframes)
      a == AfterIndex(sorted, time)
      b == BeforeIndex(sorted, time)
  IN IF Len(c.volumeKeyframes) = 0 THEN FInt(c.volume)
     ELSE IF b = 0
       THEN IF a # 0 THEN FInt(sorted[a].value) ELSE FInt(c.volume)
     ELSE IF a = 0 THEN FInt(sorted[b].value)
     ELSE ClipInterpolate(sorted[b].value, sorted[a].value,
                          Frac(time - sorted[b].time,
                               sorted[a].time - sorted[b].time),
                          sorted[b].easing)

\* time / this.fadeIn.duration from the end of the fade (faulty variant)
FadeInProgressFromEnd(c, time) ==
  Frac(c.fadeIn.duration - time, c.fadeIn.duration)

\* fadeProgress of the fade-in: time / this.fadeIn.duration
FadeInProgress(c, time) == Frac(time, c.fadeIn.duration)

\* fadeProgress of the fade-out: timeFromEnd / this.fadeOut.duration
FadeOutProgress(c, time) == Frac(c.duration - time, c.fadeOut.duration)

\* getVolumeAtTime(time)
VolumeAtTime(c, time) ==
  IF c.muted THEN FInt(0)
  ELSE IF c.fadeIn.enabled /\ time < c.fadeIn.duration
    THEN FMul(ApplyFadeCurve(FadeInProgress(c, time), c.fadeIn.type),
              KeyframeVolumeAtTime(c, time))
  ELSE IF c.fadeOut.enabled /\ c.duration - time < c.fadeOut.duration
    THEN FMul(ApplyFadeCurve(FadeOutProgress(c, time), c.fadeOut.type),
              KeyframeVolumeAtTime(c, time))
  ELSE KeyframeVolumeAtTime(c, time)

ClipCall(op, arg) == [op |-> op, arg |-> arg, ret |-> <<>>]

NewAudioClip(startOpt, durOpt, trimStartOpt, origOpt) ==
  /\ clip = <<>>
  /\ clip' = <<AudioClipOf(nextClipId, DefaultClipName, startOpt, durOpt,
                           trimStartOpt, <<>>, origOpt)>>
  /\ nextClipId' = nextClipId + 1
  /\ clipCall' = ClipCall("new", 0)
  /\ UNCHANGED newClip
  /\ UNCHANGED notClipVars

ClipAddVolumeKeyframe(time, value) ==
  /\ clip # <<>>
  /\ nextClipId <= MaxClipIds
  /\ clip' = <<[clip[1] EXCEPT !.volumeKeyframes =
                  ClipAddKf(@, nextClipId, time, value)]>>
  /\ nextClipId' = nextClipId + 1
  /\ clipCall' = ClipCall("addVolumeKeyframe", time)
  /\ UNCHANGED newClip
  /\ UNCHANGED notClipVars

ClipRemoveVolumeKeyframe(keyframeId) ==
  /\ clip # <<>>
  /\ clip' = <<[clip[1] EXCEPT !.volumeKeyframes = RemoveKf(@, keyframeId)]>>
  /\ clipCall' = ClipCall("removeVolumeKeyframe", keyframeId)
  /\ UNCHANGED <<newClip, nextClipId>>
  /\ UNCHANGED notClipVars

\* getVolumeAtTime(time): a query, the clip stays as it is
ClipGetVolumeAtTime(time) ==
  /\ clip # <<>>
  /\ clipCall' = [op |-> "getVolumeAtTime", arg |-> time,
                  ret |-> <<VolumeAtTime(clip[1], time)>>]
  /\ UNCHANGED <<clip, newClip, nextClipId>>
  /\ UNCHANGED notClipVars

\* toJSON() and fromJSON(data) = new AudioClip(data)
ClipToJSON(c) ==
  [id |-> c.id, name |-> c.name, startTime |-> c.startTime,
   duration |-> c.duration, trimStart |-> c.trimStart,
   trimEnd |-> c.trimEnd, volume |-> c.volume, muted |-> c.muted,
   fadeIn |-> c.fadeIn, fadeOut |-> c.fadeOut,
   volumeKeyframes |-> c.volumeKeyframes,
   originalDuration |-> c.originalDuration]
ClipFromJSON(data) ==
  [WithSettings(AudioClipOf(data.id, data.name, <<data.startTime>>,
                            <<data.duration>>, <<data.trimStart>>,
                            <<data.trimEnd>>, <<data.originalDuration>>),
                <<data.volume>>, <<data.muted>>, <<data.fadeIn>>,
                <<data.fadeOut>>)
     EXCEPT !.volumeKeyframes = data.volumeKeyframes]

\* AudioClip.fromJSON(clip.toJSON()): the copy is what the call returns
ClipRoundTrip ==
  /\ clip # <<>>
  /\ clipCall' = [op |-> "fromJSON", arg |-> 0,
                  ret |-> <<ClipFromJSON(ClipToJSON(clip[1]))>>]
  /\ UNCHANGED <<clip, newClip, nextClipId>>
  /\ UNCHANGED notClipVars

\* setFadeIn(settings) with every field of the settings given
ClipSetFadeIn(settings) ==
  /\ clip # <<>>
  /\ clip' = <<[clip[1] EXCEPT !.fadeIn = settings]>>
  /\ clipCall' = ClipCall("setFadeIn", 0)
  /\ UNCHANGED <<newClip, nextClipId>>
  /\ UNCHANGED notClipVars

ClipSplit(splitTime) ==
  /\ clip # <<>>
  /\ IF ClipSplitInvalid(clip[1], splitTime)
       THEN /\ newClip' = <<>>
            /\ UNCHANGED <<clip, nextClipId>>
       ELSE /\ nextClipId <= MaxClipIds
            /\ newClip' = <<SplitNewClip(clip[1], nextClipId, splitTime)>>
            /\ clip' = <<SplitThisClip(clip[1], splitTime)>>
            /\ nextClipId' = nextClipId + 1
  /\ clipCall' = ClipCall("split", splitTime)
  /\ UNCHANGED notClipVars

\* arguments of the keyframe and split calls (times relative to the clip)
KfTimes == {0, 10}
KfValues == {15}
SplitTimes == {0, 10, 30}
ClipStartOpts == {<<20>>}
ClipDurationOpts == {<<30>>}
TrimOpts == {<<5>>}
OriginalOpts == {<<40>>}
SplitPlayheads == {10, 60}

\* splitting: clips of the audio track of the store, and an AudioClip
SplitNext ==
  \/ \E tr \in TrimOpts : AddMediaItem("audio-track", <<>>, <<>>, tr)
  \/ \E tm \in KfTimes, v \in KfValues :
       AddVolumeKeyframe("audio-track", 1, tm, v)
  \/ \E p \in SplitPlayheads : SetPlayhead(p)
  \/ \E t \in CallTrackIds, i \in CallItemIds : SplitClip(t, i)
  \/ \E st \in ClipStartOpts, d \in ClipDurationOpts, tr \in TrimOpts,
        o \in OriginalOpts : NewAudioClip(st, d, tr, o)
  \/ \E tm \in KfTimes, v \in KfValues : ClipAddVolumeKeyframe(tm, v)
  \/ \E s \in SplitTimes : ClipSplit(s)

\* the options of the clips whose volume is queried: base volumes, fades of
\* 2 s and 0.5 s on a clip of 3 s, and the times of the queries
VolumeOpts == {<<>>, <<5>>}
MutedOpts == {<<>>, <<TRUE>>}
Fade(len, type) == [enabled |-> TRUE, duration |-> len, type |-> type]
FadeInOpts == {<<>>, <<Fade(20, "linear")>>, <<Fade(20, "exponential")>>}
FadeOutOpts == {<<>>, <<Fade(20, "linear")>>, <<Fade(5, "linear")>>}
FadeInSettings == {Fade(10, "linear")}
VolumeTimes == {0, 5, 10, 20, 27, 30, 40}

\* an AudioClip constructed with audio settings, then keyframed, faded and
\* queried
VolumeNext ==
  \/ \E tm \in KfTimes, v \in KfValues : ClipAddVolumeKeyframe(tm, v)
  \/ \E f \in FadeInSettings : ClipSetFadeIn(f)
  \/ \E tm \in VolumeTimes : ClipGetVolumeAtTime(tm)
  \/ ClipRoundTrip

----------------------------------------------------------------------------
(* KeyframeTrack *)

\* keyframes closer than this to a new one are replaced: 0.001 s, in
\* thousandths of a second
KeyframeTolerance == 1
\* this.range of a track of the property 'volume', in tenths
RangeMin == 0
RangeMax == 10

\* Math.max(this.range.min, Math.min(this.range.max, value))
ClampToRange(value) == Max2(RangeMin, Min2(RangeMax, value))

\* this.keyframes after addKeyframe(time, value, easing)
AddKf(kfs, id, time, value, easing) ==
  SortByTime(Append(SelectSeq(kfs,
                              LAMBDA kf : Abs(kf.time - time) * 100
                                            > KeyframeTolerance),
                    Keyframe(id, time, ClampToRange(value), easing)))

\* this.keyframes.findIndex(kf => kf.id === id): 0 is -1
FindIndex(kfs, id) ==
  IF \E k \in 1..Len(kfs) : kfs[k].id = id
    THEN CHOOSE k \in 1..Len(kfs) :
           /\ kfs[k].id = id
           /\ \A j \in 1..(k - 1) : kfs[j].id # id
    ELSE 0

\* the keyframe with the fields of `updates` that are not undefined
UpdatedKf(kf, timeOpt, valueOpt, easingOpt) ==
  [kf EXCEPT !.time = IF timeOpt = <<>> THEN @ ELSE timeOpt[1],
             !.value = IF valueOpt = <<>> THEN @
                       ELSE ClampToRange(valueOpt[1]),
             !.easing = IF easingOpt = <<>> THEN @ ELSE easingOpt[1]]

\* this.keyframes after updateKeyframe(id, updates)
UpdateKf(kfs, id, timeOpt, valueOpt, easingOpt) ==
  LET index == FindIndex(kfs, id)
  IN IF index = 0 THEN kfs
     ELSE SortByTime([kfs EXCEPT ![index] =
                        UpdatedKf(kfs[index], timeOpt, valueOpt,
                                  easingOpt)])

AddKeyframe(time, value, easing) ==
  /\ nextKeyframeId <= MaxKeyframes
  /\ keyframes' = AddKf(keyframes, nextKeyframeId, time, value, easing)
  /\ nextKeyframeId' = nextKeyframeId + 1
  /\ UNCHANGED <<enabled, kfCall>>
  /\ UNCHANGED notKfVars

RemoveKeyframe(id) ==
  /\ keyframes' = RemoveKf(keyframes, id)
  /\ UNCHANGED <<nextKeyframeId, enabled, kfCall>>
  /\ UNCHANGED notKfVars

UpdateKeyframe(id, timeOpt, valueOpt, easingOpt) ==
  /\ keyframes' = UpdateKf(keyframes, id, timeOpt, valueOpt, easingOpt)
  /\ UNCHANGED <<nextKeyframeId, enabled, kfCall>>
  /\ UNCHANGED notKfVars

\* this.range.default of a track of the property 'volume', in tenths
RangeDefault == 10

\* applyEasing(t, easing) of the keyframes module, on a fraction
ApplyEasing(t, easing) ==
  LET one == FInt(1)
      two == FInt(2)
      half == Frac(1, 2)
      inv == FSub(one, t)
      dbl == FAdd(FMul(FInt(-2), t), two)
  IN CASE easing = "ease-in" -> FMul(t, t)
       [] easing = "ease-out" -> FSub(one, FMul(inv, inv))
       [] easing = "ease-in-out" ->
            IF FLess(t, half) THEN FMul(two, FMul(t, t))
            ELSE FSub(one, FMul(half, FMul(dbl, dbl)))
       [] easing = "ease-in-cubic" -> FMul(t, FMul(t, t))
       [] easing = "ease-out-cubic" -> FSub(one, FMul(inv, FMul(inv, inv)))
       [] easing = "ease-in-out-cubic" ->
            IF FLess(t, half) THEN FMul(FInt(4), FMul(t, FMul(t, t)))
            ELSE FSub(one, FMul(half, FMul(dbl, FMul(dbl, dbl))))
       [] easing = "step" -> IF FLess(t, one) THEN FInt(0) ELSE one
       [] OTHER -> t

\* the easing of the later keyframe (faulty variant)
SegmentEasingOfAfter(before, after) == after.easing

\* the easing getValueAtTime applies between `before` and `after`
SegmentEasing(before, after) == before.easing

\* before.value + (after.value - before.value) * easedProgress
Interpolated(before, after, time) ==
  LET span == after.time - before.time
      progress == Frac(time - before.time, span)
      eased == ApplyEasing(progress, SegmentEasing(before, after))
  IN FAdd(FInt(before.value),
          FMul(FInt(after.value - before.value), eased))

\* what getValueAtTime(time) returns on a track with these keyframes
ValueAtTime(kfs, en, time) ==
  LET a == AfterIndex(kfs, time)
      b == BeforeIndex(kfs, time)
  IN IF ~en \/ Len(kfs) = 0 THEN FInt(RangeDefault)
     ELSE IF b = 0 /\ a = 0 THEN FInt(RangeDefault)
     ELSE IF b = 0 THEN FInt(kfs[a].value)
     ELSE IF a = 0 THEN FInt(kfs[b].value)
     ELSE IF kfs[a].time - kfs[b].time <= 0 THEN FInt(kfs[b].value)
     ELSE Interpolated(kfs[b], kfs[a], time)

\* getValueAtTime(time): a query, the track stays as it is
GetValueAtTime(time) ==
  /\ kfCall' = [time |-> time, ret |-> <<ValueAtTime(keyframes, enabled, time)>>]
  /\ UNCHANGED <<keyframes, nextKeyframeId, enabled>>
  /\ UNCHANGED notKfVars

\* the fields of `updates`: absent, or one of the values the callers pass
UpdateTimeOpts == {<<>>} \cup {<<t>> : t \in KfTimes}
UpdateValueOpts == {<<>>} \cup {<<v>> : v \in KfValues}
CallKfIds == 1..(MaxKeyframes + 1)

\* keyframes: a KeyframeTrack, and the volume keyframes of a clip of the
\* store
KeyframeNext ==
  \/ \E tm \in KfTimes, v \in KfValues : AddKeyframe(tm, v, "linear")
  \/ \E k \in CallKfIds : RemoveKeyframe(k)
  \/ \E k \in CallKfIds, tm \in UpdateTimeOpts, v \in UpdateValueOpts :
       UpdateKeyframe(k, tm, v, <<>>)
  \/ AddMediaItem("audio-track", <<>>, <<>>, <<>>)
  \/ \E i \in CallItemIds, tm \in KfTimes, v \in KfValues :
       AddVolumeKeyframe("audio-track", i, tm, v)
  \/ \E i \in CallItemIds, k \in CallKfIds :
       RemoveVolumeKeyframe("audio-track", i, k)

\* the arguments of the calls on a KeyframeTrack queried for its value
TrackTimes == {0, 10}
TrackValues == {5, 15}
TrackEasings == {"ease-in", "step"}
\* the `updates` of updateKeyframe: a new time, a new value or a new easing
TrackUpdates == {<<<<0>>, <<>>, <<>>>>, <<<<>>, <<15>>, <<>>>>,
                 <<<<>>, <<>>, <<"ease-out">>>>}
QueryTimes == {-5, 0, 2, 10}

\* a KeyframeTrack, edited and queried
TrackNext ==
  \/ \E tm \in TrackTimes, v \in TrackValues, e \in TrackEasings :
       AddKeyframe(tm, v, e)
  \/ \E k \in CallKfIds : RemoveKeyframe(k)
  \/ \E k \in CallKfIds, u \in TrackUpdates :
       UpdateKeyframe(k, u[1], u[2], u[3])
  \/ \E tm \in QueryTimes : GetValueAtTime(tm)

----------------------------------------------------------------------------
(* Transition *)

\* TRANSITION_CONFIG: the types, and the duration range and the default
\* duration of each in tenths of a second (0 where the entry has no
\* defaultDuration)
TransitionTypes ==
  {"none", "crossfade", "wipe_left", "wipe_right", "wipe_up", "wipe_down",
   "fade_black", "fade_white"}
Wipes == {"wipe_left", "wipe_right", "wipe_up", "wipe_down"}
MinDurationOf(type) ==
  CASE type = "none" -> 0
    [] type = "crossfade" -> 1
    [] type \in Wipes -> 2
    [] OTHER -> 3
MaxDurationOf(type) ==
  CASE type = "none" -> 0
    [] type \in Wipes -> 30
    [] OTHER -> 50
ConfigDefaultDuration(type) ==
  CASE type = "none" -> 0
    [] type \in Wipes -> 5
    [] OTHER -> 10

\* DEFAULT_TRANSITION
DefaultType == "none"
DefaultEasing == "linear"
\* the duration of a transition whose type has no default: 1.0
FallbackDuration == 10

\* options.x || fallback: an absent option and 0 give the fallback
OrElse(opt, fallback) ==
  IF opt = <<>> \/ opt[1] = 0 THEN fallback ELSE opt[1]

\* getDefaultDuration(): config?.defaultDuration || 1.0
GetDefaultDuration(type) ==
  IF type \in TransitionTypes /\ ConfigDefaultDuration(type) # 0
    THEN ConfigDefaultDuration(type)
    ELSE FallbackDuration

\* new Transition(options); freshId is what generateId() returns
NewTransition(idOpt, typeOpt, durOpt, easingOpt, fromOpt, toOpt, freshId) ==
  LET type == IF typeOpt = <<>> THEN DefaultType ELSE typeOpt[1]
  IN [id |-> OrElse(idOpt, freshId),
      type |-> type,
      duration |-> OrElse(durOpt, GetDefaultDuration(type)),
      easing |-> IF easingOpt = <<>> THEN DefaultEasing ELSE easingOpt[1],
      fromClipId |-> OrElse(fromOpt, 0),
      toClipId |-> OrElse(toOpt, 0)]

\* Math.max(config.minDuration, Math.min(config.maxDuration, duration))
ClampDuration(type, d) == Max2(MinDurationOf(type), Min2(MaxDurationOf(type), d))

\* applyEasing(t) of the transition, by this.easing
TransitionEasing(t, easing) ==
  LET one == FInt(1)
      inv == FSub(one, t)
      dbl == FAdd(FMul(FInt(-2), t), FInt(2))
  IN CASE easing = "ease-in" -> FMul(t, t)
       [] easing = "ease-out" -> FSub(one, FMul(inv, inv))
       [] easing = "ease-in-out" ->
            IF FLess(t, Frac(1, 2)) THEN FMul(FInt(2), FMul(t, t))
            ELSE FSub(one, FMul(Frac(1, 2), FMul(dbl, dbl)))
       [] OTHER -> t

\* n / d for d # 0
FDiv(n, d) == IF d < 0 THEN Frac(-n, -d) ELSE Frac(n, d)

\* Math.max(0, Math.min(1, x))
Clamp01(x) ==
  IF FLess(x, FInt(0)) THEN FInt(0)
  ELSE IF FLess(FInt(1), x) THEN FInt(1) ELSE x

\* rawProgress of getProgress(time)
RawProgress(tr, time) == Clamp01(FDiv(time, tr.duration))

\* getProgress(time)
Progress(tr, time) ==
  IF tr.type = "none" THEN FInt(0)
  ELSE IF tr.duration <= 0 THEN FInt(1)
  ELSE TransitionEasing(RawProgress(tr, time), tr.easing)

\* getCrossfadeOpacities(progress)
CrossfadeOpacities(progress) ==
  [fromOpacity |-> FSub(FInt(1), progress), toOpacity |-> progress]

\* toJSON() and fromJSON(data)
TransitionToJSON(tr) ==
  [id |-> tr.id, type |-> tr.type, duration |-> tr.duration,
   easing |-> tr.easing, fromClipId |-> tr.fromClipId,
   toClipId |-> tr.toClipId]
TransitionFromJSON(data, freshId) ==
  NewTransition(<<data.id>>, <<data.type>>, <<data.duration>>,
                <<data.easing>>, <<data.fromClipId>>, <<data.toClipId>>,
                freshId)

TransCall(op, arg, ret) == [op |-> op, arg |-> arg, ret |-> ret]

\* setType(type)
SetType(type) ==
  /\ transition' =
       IF type \in TransitionTypes
         THEN [transition EXCEPT
                 !.type = type,
                 !.duration = ClampDuration(type, transition.duration)]
         ELSE transition
  /\ transCall' = TransCall("setType", type, <<>>)
  /\ UNCHANGED notTransVars

\* setDuration(duration)
SetDuration(d) ==
  /\ transition' =
       IF transition.type \in TransitionTypes
         THEN [transition EXCEPT
                 !.duration = ClampDuration(transition.type, d)]
         ELSE transition
  /\ transCall' = TransCall("setDuration", d, <<>>)
  /\ UNCHANGED notTransVars

\* getProgress(time): a query
GetProgress(time) ==
  /\ transCall' = TransCall("getProgress", time, <<Progress(transition, time)>>)
  /\ UNCHANGED transition
  /\ UNCHANGED notTransVars

\* Transition.fromJSON(transition.toJSON()): the copy is what the call
\* returns
TransitionRoundTrip ==
  /\ transCall' = TransCall("fromJSON", 0,
                            <<TransitionFromJSON(TransitionToJSON(transition),
                                                 2)>>)
  /\ UNCHANGED transition
  /\ UNCHANGED notTransVars

\* the options of the constructor and the arguments of the calls: types of
\* the configuration and one that is not, durations inside and outside the
\* ranges
UnknownType == "zoom"
TypeOpts == {<<>>, <<"none">>, <<"crossfade">>, <<"wipe_left">>, <<UnknownType>>}
TransDurationOpts == {<<>>, <<0>>, <<-10>>, <<20>>, <<100>>}
EasingOpts == {<<>>, <<"ease-in">>, <<"ease-out">>, <<"ease-in-out">>}
ClipRefOpts == {<<>>, <<7>>}
SetTypes == {"none", "crossfade", "wipe_left", "fade_black", UnknownType}
SetDurations == {-10, 0, 1, 20, 100}
ElapsedTimes == {-10, 0, 5, 10, 20, 60}

\* a Transition under its setters, its progress query and serialisation
TransitionNext ==
  \/ \E t \in SetTypes : SetType(t)
  \/ \E d \in SetDurations : SetDuration(d)
  \/ \E e \in ElapsedTimes : GetProgress(e)
  \/ TransitionRoundTrip

----------------------------------------------------------------------------
(* Project manager *)

\* PROJECT_VERSION and AUTOSAVE_SETTINGS.MIN_CHANGE_INTERVAL_MS (in seconds)
ProjectVersion == "1.0.0"
MinChangeInterval == 5

\* DEFAULT_PROJECT
DefaultProjectName == "Untitled Project"
DefaultProject ==
  [version |-> ProjectVersion, name |-> DefaultProjectName,
   created |-> <<>>, modified |-> <<>>,
   tracks |-> <<>>, transitions |-> <<>>, filters |-> "default"]

\* values handed to load(): null, a number, an object with its fields, and
\* a string whose content is <<v>> when it is the JSON text of v and <<>>
\* when it is no JSON text
JsNull == [kind |-> "null"]
JsNumber == [kind |-> "number"]
JsObject(fields) == [kind |-> "object", fields |-> fields]
JsString(content) == [kind |-> "string", content |-> content]

\* JSON.stringify(value) and JSON.parse(text); ParseThrows when the text is
\* no JSON
JsonStringify(value) == JsString(<<value>>)
ParseThrows(data) == data.kind = "string" /\ data.content = <<>>
JsonParse(data) == data.content[1]

\* const project = typeof data === 'string' ? JSON.parse(data) : data
LoadedValue(data) == IF data.kind = "string" THEN JsonParse(data) ELSE data

\* project.version of migrateProject throws on null
MigrateThrows(project) == project.kind = "null"

\* migrateProject(project): { ...project, version: PROJECT_VERSION }; the
\* spread of a number has no fields
MigrateProject(project) ==
  [version |-> ProjectVersion]
    @@ (IF project.kind = "object" THEN project.fields ELSE <<>>)

\* load(data) throws before it assigns anything
LoadThrows(data) ==
  ParseThrows(data) \/ MigrateThrows(LoadedValue(data))

\* this.currentProject after load(data) at time `at`
LoadedProject(data, at) ==
  [modified |-> <<at>>]
    @@ MigrateProject(LoadedValue(data)) @@ DefaultProject

\* this.currentProject after createNew(options) at time `at`
NewProject(nameOpt, at) ==
  [DefaultProject EXCEPT
     !.name = IF nameOpt = <<>> THEN DefaultProjectName ELSE nameOpt[1],
     !.created = <<at>>,
     !.modified = <<at>>] @@ [id |-> at]

\* this.currentProject after the assignments of save() at time `at`
SavedProject(project, at) ==
  [project EXCEPT !.modified = <<at>>, !.version = ProjectVersion]

\* stopAutosave() forgets the timer without clearing it (faulty variant)
TimersAfterStopLeaks == activeTimers

\* the timers after stopAutosave()
TimersAfterStop ==
  IF autosaveTimer # 0 THEN activeTimers \ {autosaveTimer} ELSE activeTimers

\* startAutosave(): stopAutosave(), then a new interval timer if autosave
\* is enabled
StartAutosaveWith(isEnabled) ==
  IF isEnabled
    THEN /\ nextTimerId <= MaxTimers
         /\ autosaveTimer' = nextTimerId
         /\ activeTimers' = TimersAfterStop \cup {nextTimerId}
         /\ nextTimerId' = nextTimerId + 1
    ELSE /\ autosaveTimer' = 0
         /\ activeTimers' = TimersAfterStop
         /\ UNCHANGED nextTimerId

ProjCall(op, threw, ret) == [op |-> op, threw |-> threw, ret |-> ret]

\* createNew(options)
CreateNew(nameOpt) ==
  /\ currentProject' = <<NewProject(nameOpt, now)>>
  /\ projectDirty' = FALSE
  /\ StartAutosaveWith(autosaveEnabled)
  /\ projCall' = ProjCall("createNew", FALSE, <<>>)
  /\ UNCHANGED <<autosaveEnabled, lastSaveTime, now, stored>>
  /\ UNCHANGED notProjVars

\* load(data)
Load(data) ==
  /\ IF LoadThrows(data)
       THEN /\ projCall' = ProjCall("load", TRUE, <<>>)
            /\ UNCHANGED <<currentProject, projectDirty, autosaveTimer,
                           activeTimers, nextTimerId>>
       ELSE /\ currentProject' = <<LoadedProject(data, now)>>
            /\ projectDirty' = FALSE
            /\ StartAutosaveWith(autosaveEnabled)
            /\ projCall' = ProjCall("load", FALSE, <<>>)
  /\ UNCHANGED <<autosaveEnabled, lastSaveTime, now, stored>>
  /\ UNCHANGED notProjVars

\* save(): throws when there is no project
Save ==
  /\ IF currentProject = <<>>
       THEN /\ projCall' = ProjCall("save", TRUE, <<>>)
            /\ UNCHANGED <<currentProject, projectDirty, lastSaveTime>>
       ELSE /\ currentProject' = <<SavedProject(currentProject[1], now)>>
            /\ projectDirty' = FALSE
            /\ lastSaveTime' = <<now>>
            /\ projCall' =
                 ProjCall("save", FALSE,
                          <<JsonStringify(JsObject(
                              SavedProject(currentProject[1], now)))>>)
  /\ UNCHANGED <<autosaveTimer, autosaveEnabled, activeTimers, nextTimerId,
                 now, stored>>
  /\ UNCHANGED notProjVars

\* load(save()) on a project
SaveAndLoad ==
  /\ currentProject # <<>>
  /\ currentProject' =
       <<LoadedProject(JsonStringify(JsObject(
                         SavedProject(currentProject[1], now))), now)>>
  /\ projectDirty' = FALSE
  /\ lastSaveTime' = <<now>>
  /\ StartAutosaveWith(autosaveEnabled)
  /\ projCall' = ProjCall("load", FALSE, <<>>)
  /\ UNCHANGED <<autosaveEnabled, now, stored>>
  /\ UNCHANGED notProjVars

\* updateFromStore(state): createNew() first when there is no project,
\* then the assignments and markDirty()
UpdateFromStore(state) ==
  /\ LET project == IF currentProject = <<>> THEN NewProject(<<>>, now)
                    ELSE currentProject[1]
     IN currentProject' = <<[project EXCEPT
                               !.tracks = state.tracks,
                               !.filters = state.filters,
                               !.transitions = state.transitions]>>
  /\ IF currentProject = <<>>
       THEN StartAutosaveWith(autosaveEnabled)
       ELSE UNCHANGED <<autosaveTimer, activeTimers, nextTimerId>>
  /\ projectDirty' = TRUE
  /\ projCall' = ProjCall("updateFromStore", FALSE, <<>>)
  /\ UNCHANGED <<autosaveEnabled, lastSaveTime, now, stored>>
  /\ UNCHANGED notProjVars

MarkDirty ==
  /\ projectDirty' = TRUE
  /\ projCall' = ProjCall("markDirty", FALSE, <<>>)
  /\ UNCHANGED <<currentProject, autosaveTimer, autosaveEnabled,
                 lastSaveTime, activeTimers, nextTimerId, now, stored>>
  /\ UNCHANGED notProjVars

\* setAutosaveEnabled(enabled)
SetAutosaveEnabled(isEnabled) ==
  /\ autosaveEnabled' = isEnabled
  /\ StartAutosaveWith(isEnabled)
  /\ projCall' = ProjCall("setAutosaveEnabled", FALSE, <<>>)
  /\ UNCHANGED <<currentProject, projectDirty, lastSaveTime, now, stored>>
  /\ UNCHANGED notProjVars

\* startAutosave(), called directly
StartAutosave ==
  /\ StartAutosaveWith(autosaveEnabled)
  /\ projCall' = ProjCall("startAutosave", FALSE, <<>>)
  /\ UNCHANGED <<currentProject, projectDirty, autosaveEnabled, lastSaveTime,
                 now, stored>>
  /\ UNCHANGED notProjVars

\* stopAutosave(), called directly
StopAutosave ==
  /\ autosaveTimer' = 0
  /\ activeTimers' = TimersAfterStop
  /\ projCall' = ProjCall("stopAutosave", FALSE, <<>>)
  /\ UNCHANGED <<currentProject, projectDirty, autosaveEnabled, lastSaveTime,
                 nextTimerId, now, stored>>
  /\ UNCHANGED notProjVars

\* the minimum interval compared the wrong way round (faulty variant)
TooSoonInverted(last, at) ==
  last # <<>> /\ at - last[1] >= MinChangeInterval

\* this.lastSaveTime && (Date.now() - this.lastSaveTime) < the minimum
TooSoon(last, at) ==
  last # <<>> /\ last[1] # 0 /\ at - last[1] < MinChangeInterval

\* performAutosave(), called by the interval timer; writeOk is whether
\* localStorage.setItem succeeds (it throws when the quota is exceeded). The
\* call is logged with its outcome and the lastSaveTime it found.
PerformAutosave(writeOk) ==
  /\ IF ~projectDirty \/ currentProject = <<>>
          \/ TooSoon(lastSaveTime, now)
       THEN /\ projCall' = ProjCall("performAutosave", FALSE,
                                    <<"skipped", lastSaveTime>>)
            /\ UNCHANGED <<currentProject, projectDirty, lastSaveTime,
                           stored>>
       ELSE /\ currentProject' = <<SavedProject(currentProject[1], now)>>
            /\ projectDirty' = FALSE
            /\ lastSaveTime' = <<now>>
            /\ stored' =
                 IF writeOk
                   THEN <<JsonStringify(JsObject(
                            SavedProject(currentProject[1], now)))>>
                   ELSE stored
            /\ projCall' =
                 ProjCall("performAutosave", FALSE,
                          <<IF writeOk THEN "saved" ELSE "failed",
                            lastSaveTime>>)
  /\ UNCHANGED <<autosaveTimer, autosaveEnabled, activeTimers, nextTimerId,
                 now>>
  /\ UNCHANGED notProjVars

\* time passes
AdvanceClock(dt) ==
  /\ now + dt <= MaxTime
  /\ now' = now + dt
  /\ UNCHANGED <<currentProject, projectDirty, autosaveTimer,
                 autosaveEnabled, lastSaveTime, activeTimers, nextTimerId,
                 stored, projCall>>
  /\ UNCHANGED notProjVars

\* the values handed to the calls: names, states of the editor store, and
\* snapshots that are well-formed, partial and malformed
NameOpts == {<<>>, <<"Demo">>}
StoreStates ==
  {[tracks |-> <<"clip">>, transitions |-> <<"crossfade">>,
    filters |-> "bright"]}
LoadInputs ==
  {JsObject([name |-> "Loaded", tracks |-> <<"clip">>]),
   JsonStringify(JsObject([version |-> "0.9.0", name |-> "Old"])),
   JsString(<<>>), JsNull, JsonStringify(JsNull),
   JsNumber, JsonStringify(JsNumber)}
ClockSteps == {1, 4}

\* the project manager under loading and saving
ProjectNext ==
  \/ \E n \in NameOpts : CreateNew(n)
  \/ \E d \in LoadInputs : Load(d)
  \/ Save
  \/ SaveAndLoad
  \/ \E st \in StoreStates : UpdateFromStore(st)
  \/ AdvanceClock(MaxTime - 1)

\* the project manager under the calls that start and stop the timer
TimerNext ==
  \/ \E n \in NameOpts : CreateNew(n)
  \/ \E d \in LoadInputs : Load(d)
  \/ \E b \in BOOLEAN : SetAutosaveEnabled(b)
  \/ StartAutosave
  \/ StopAutosave

\* the project manager under edits, saves and autosave ticks as time passes
AutosaveNext ==
  \/ CreateNew(<<>>)
  \/ MarkDirty
  \/ Save
  \/ \E ok \in BOOLEAN : PerformAutosave(ok)
  \/ \E b \in BOOLEAN : SetAutosaveEnabled(b)
  \/ \E dt \in ClockSteps : AdvanceClock(dt)

----------------------------------------------------------------------------
(* Export pipeline *)

\* EXPORT_STATUS values that end a job
TerminalStatuses == {"completed", "failed", "cancelled"}

\* new ExportJob(project, settings); the timestamps are <<>> for null and
\* <<"set">> once Date.now() was stored
NewJob ==
  [status |-> "queued", progress |-> 0, startedAt |-> <<>>,
   completedAt |-> <<>>, error |-> <<>>, outputUrl |-> <<>>,
   abortController |-> FALSE]

\* the startExport call on a job: not made ("idle"), waiting for the
\* recorder ("recording") or the server ("fetching"), or settled; the state
\* of the MediaRecorder; and whether cancel() came while the call waited
NoExport ==
  [pc |-> "idle", recorder |-> "inactive", result |-> <<>>,
   cancelledDuring |-> FALSE]

\* job.setStatus(status)
JobSetStatus(job, status) ==
  [job EXCEPT
     !.status = status,
     !.startedAt = IF status = "encoding" /\ @ = <<>> THEN <<"set">> ELSE @,
     !.completedAt = IF status \in TerminalStatuses THEN <<"set">> ELSE @]

\* job.fail(error) and job.complete(outputUrl)
JobFail(job, error) ==
  JobSetStatus([job EXCEPT !.error = <<error>>], "failed")
JobComplete(job, outputUrl) ==
  JobSetStatus([job EXCEPT !.outputUrl = <<outputUrl>>, !.progress = 100],
               "completed")

\* createJob(project, settings)
CreateJob ==
  /\ nextJobId <= MaxJobs
  /\ jobs' = Append(jobs, NewJob)
  /\ exports' = Append(exports, NoExport)
  /\ nextJobId' = nextJobId + 1
  /\ UNCHANGED notExportVars

\* startExport(job, options) up to its first await. method is what the
\* options and the browser allow: "client" (a codec and a canvas), "server"
\* (an endpoint) or "none"
StartExport(id, method) ==
  /\ id \in 1..Len(jobs)
  /\ exports[id].pc = "idle"
  /\ CASE method = "client" ->
            \* exportClientSide: PREPARING, the recorder, the abort
            \* controller, ENCODING, mediaRecorder.start()
            /\ jobs' = [jobs EXCEPT ![id] =
                          [JobSetStatus(JobSetStatus(@, "preparing"),
                                        "encoding")
                             EXCEPT !.abortController = TRUE]]
            /\ exports' = [exports EXCEPT ![id].pc = "recording",
                                          ![id].recorder = "recording"]
       [] method = "server" ->
            \* exportServerSide: PREPARING, then await fetch(...)
            /\ jobs' = [jobs EXCEPT ![id] = JobSetStatus(@, "preparing")]
            /\ exports' = [exports EXCEPT ![id].pc = "fetching"]
       [] OTHER ->
            \* 'No export method available' is thrown and caught
            /\ jobs' = [jobs EXCEPT ![id] = JobFail(@, "no method")]
            /\ exports' = [exports EXCEPT ![id].pc = "settled",
                                          ![id].result = <<"rejected">>]
  /\ UNCHANGED nextJobId
  /\ UNCHANGED notExportVars

\* the fetch of exportServerSide settles: with a good response the job is
\* set to ENCODING and startExport completes it, else the error is caught
\* and the job fails
ServerResponds(id, ok) ==
  /\ id \in 1..Len(jobs)
  /\ exports[id].pc = "fetching"
  /\ jobs' = [jobs EXCEPT ![id] =
                IF ok THEN JobComplete(JobSetStatus(@, "encoding"), "url")
                ELSE JobFail(@, "server")]
  /\ exports' = [exports EXCEPT
                   ![id].pc = "settled",
                   ![id].result = IF ok THEN <<"resolved">>
                                  ELSE <<"rejected">>]
  /\ UNCHANGED nextJobId
  /\ UNCHANGED notExportVars

\* mediaRecorder.onstop: a cancelled job rejects the promise and the catch
\* of startExport fails the job; else FINALIZING, the promise resolves and
\* startExport completes the job
RecorderStop(id) ==
  /\ id \in 1..Len(jobs)
  /\ exports[id].recorder # "inactive"
  /\ jobs' = [jobs EXCEPT ![id] =
                IF @.status = "cancelled"
                  THEN JobFail(@, "Export cancelled")
                  ELSE JobComplete(JobSetStatus(@, "finalizing"), "url")]
  /\ exports' = [exports EXCEPT
                   ![id].pc = "settled",
                   ![id].recorder = "inactive",
                   ![id].result = IF jobs[id].status = "cancelled"
                                    THEN <<"rejected">>
                                    ELSE <<"resolved">>]
  /\ UNCHANGED nextJobId
  /\ UNCHANGED notExportVars

\* mediaRecorder.onerror: the promise is rejected and the catch of
\* startExport fails the job
RecorderError(id) ==
  /\ id \in 1..Len(jobs)
  /\ exports[id].recorder = "recording"
  /\ jobs' = [jobs EXCEPT ![id] = JobFail(@, "MediaRecorder error")]
  /\ exports' = [exports EXCEPT ![id].pc = "settled",
                                ![id].recorder = "inactive",
                                ![id].result = <<"rejected">>]
  /\ UNCHANGED nextJobId
  /\ UNCHANGED notExportVars

\* cancelJob(jobId): job.cancel() aborts the controller if there is one
\* (the abort listener stops a recorder that records), then CANCELLED
CancelJob(id) ==
  /\ id \in 1..Len(jobs)
  /\ jobs' = [jobs EXCEPT ![id] = JobSetStatus(@, "cancelled")]
  /\ exports' = [exports EXCEPT
                   ![id].recorder =
                     IF jobs[id].abortController /\ @ = "recording"
                       THEN "stopping" ELSE @,
                   ![id].cancelledDuring =
                     @ \/ exports[id].pc \in {"recording", "fetching"}]
  /\ UNCHANGED nextJobId
  /\ UNCHANGED notExportVars

\* the stop event of a recorder whose stop() was called
RecorderStopRequested(id) ==
  /\ id \in 1..Len(jobs)
  /\ exports[id].recorder = "stopping"
  /\ RecorderStop(id)

ExportMethods == {"client", "server", "none"}
JobIds == 1..MaxJobs

\* the export pipeline: jobs created, started, cancelled, and the callbacks
\* of the recorder and the server
ExportNext ==
  \/ CreateJob
  \/ \E id \in JobIds, m \in ExportMethods : StartExport(id, m)
  \/ \E id \in JobIds, ok \in BOOLEAN : ServerResponds(id, ok)
  \/ \E id \in JobIds : RecorderStop(id)
  \/ \E id \in JobIds : RecorderError(id)
  \/ \E id \in JobIds : CancelJob(id)

----------------------------------------------------------------------------
(* History manager *)

\* ACTION_TYPE.BATCH and the type of the actions the callers push
BatchType == "batch"
OpType    == "update_item"

\* the label handed to endBatch: its default, or the caller's
DefaultBatchLabel == "Multiple Changes"
BatchLabels == {DefaultBatchLabel, "L"}

\* an action as record(type, {before, after, restore}) builds it:
\* undo restores `before`, redo restores `after`
OpAction(id, before, after) ==
  [id |-> id, type |-> OpType, label |-> "", actions |-> <<>>,
   before |-> before, after |-> after]

\* batchAction of endBatch
BatchAction(id, label, actions) ==
  [id |-> id, type |-> BatchType, label |-> label, actions |-> actions,
   before |-> 0, after |-> 0]

\* the fields of the manager the operations read and write
H ==
  [undoStack |-> undoStack, redoStack |-> redoStack,
   isExecuting |-> isExecuting, batchMode |-> batchMode,
   batchActions |-> batchActions]

SetH(h) ==
  /\ undoStack' = h.undoStack
  /\ redoStack' = h.redoStack
  /\ isExecuting' = h.isExecuting
  /\ batchMode' = h.batchMode
  /\ batchActions' = h.batchActions

CanUndo(h) == Len(h.undoStack) > 0
CanRedo(h) == Len(h.redoStack) > 0

\* faulty variant: drops the newest entries (pop) instead of the oldest
EvictNewest(s) ==
  IF Len(s) > HistMaxSize THEN SubSeq(s, 1, HistMaxSize) ELSE s

\* while (this.undoStack.length > this.maxSize) this.undoStack.shift()
RECURSIVE Evict(_)
Evict(s) == IF Len(s) > HistMaxSize THEN Evict(Tail(s)) ELSE s

\* faulty variant: the redo stack is not cleared on a commit
PushActionKeepRedo(h, a) ==
  IF h.isExecuting THEN h
  ELSE IF h.batchMode THEN [h EXCEPT !.batchActions = Append(@, a)]
  ELSE [h EXCEPT !.undoStack = Evict(Append(@, a))]

\* faulty variant: no isExecuting guard
PushActionUnguarded(h, a) ==
  IF h.batchMode THEN [h EXCEPT !.batchActions = Append(@, a)]
  ELSE [h EXCEPT !.undoStack = Evict(Append(@, a)), !.redoStack = <<>>]

PushActionH(h, a) ==
  IF h.isExecuting THEN h
  ELSE IF h.batchMode THEN [h EXCEPT !.batchActions = Append(@, a)]
  ELSE [h EXCEPT !.undoStack = Evict(Append(@, a)), !.redoStack = <<>>]

StartBatchH(h) == [h EXCEPT !.batchMode = TRUE, !.batchActions = <<>>]

\* faulty variant: the collected actions are kept
CancelBatchKeep(h) == [h EXCEPT !.batchMode = FALSE]

CancelBatchH(h) == [h EXCEPT !.batchMode = FALSE, !.batchActions = <<>>]

EndBatchH(h, label, id) ==
  IF ~h.batchMode \/ Len(h.batchActions) = 0
    THEN [h EXCEPT !.batchMode = FALSE, !.batchActions = <<>>]
    ELSE PushActionH([h EXCEPT !.batchMode = FALSE, !.batchActions = <<>>],
                     BatchAction(id, label, h.batchActions))

ClearH(h) == [h EXCEPT !.undoStack = <<>>, !.redoStack = <<>>]

\* the closures undo()/redo() invoke for an action, in the order of the list
Subs(a) == IF a.type = BatchType THEN a.actions ELSE <<a>>

\* faulty variant: the undo closures run first to last
UndoSubForward(a, k) == Subs(a)[k + 1]

\* for (let i = action.actions.length - 1; i >= 0; i--): the closure invoked
\* after k closures have run
UndoSub(a, k) == Subs(a)[Len(Subs(a)) - k]

\* for (const subAction of action.actions)
RedoSub(a, k) == Subs(a)[k + 1]

\* faulty variant: the flag is set before the canUndo() guard
UndoCallGuardLate(h) ==
  IF ~CanUndo(h) THEN [h EXCEPT !.isExecuting = TRUE]
  ELSE [h EXCEPT !.isExecuting = TRUE, !.undoStack = Front(@)]

\* faulty variant: the oldest action is taken (shift) instead of the newest
UndoCallShift(h) ==
  IF ~CanUndo(h) THEN h
  ELSE [h EXCEPT !.isExecuting = TRUE, !.undoStack = Tail(@)]

\* undo() up to the first closure: the guard, the flag, the pop
UndoCallH(h) ==
  IF ~CanUndo(h) THEN h
  ELSE [h EXCEPT !.isExecuting = TRUE, !.undoStack = Front(@)]

\* local `action` of undo()
UndoPopped(h) == Last(h.undoStack)

\* redo() up to the first closure
RedoCallH(h) ==
  IF ~CanRedo(h) THEN h
  ELSE [h EXCEPT !.isExecuting = TRUE, !.redoStack = Front(@)]

RedoPopped(h) == Last(h.redoStack)

\* this.redoStack.push(action); ... finally { this.isExecuting = false }
UndoReturnH(h, a) ==
  [h EXCEPT !.redoStack = Append(@, a), !.isExecuting = FALSE]

RedoReturnH(h, a) ==
  [h EXCEPT !.undoStack = Append(@, a), !.isExecuting = FALSE]

\* faulty variant: no finally block
ThrowNoFinally(h) == h

\* a closure throws: only the finally block runs
ThrowH(h) == [h EXCEPT !.isExecuting = FALSE]

Call(op, ret, arg) == [op |-> op, ret |-> ret, arg |-> arg]

\* the store as create() builds it and a new HistoryManager
Init ==
  /\ tracks = [t \in TrackIds |-> <<>>]
  /\ duration = 0
  /\ selectedItemId = 0
  /\ nextItemId = 1
  /\ playhead = 0
  /\ isDirty = FALSE
  /\ nextKfId = 1
  /\ storeCall = StoreCall("create", FALSE, <<>>)
  /\ clip = <<>>
  /\ newClip = <<>>
  /\ clipCall = [op |-> "none", arg |-> 0]
  /\ nextClipId = 1
  /\ keyframes = <<>>
  /\ nextKeyframeId = 1
  /\ enabled = TRUE
  /\ kfCall = [time |-> 0, ret |-> <<>>]
  /\ undoStack = <<>>
  /\ redoStack = <<>>
  /\ isExecuting = FALSE
  /\ batchMode = FALSE
  /\ batchActions = <<>>
  /\ pc = "idle"
  /\ cur = <<>>
  /\ idx = 0
  /\ doc = 0
  /\ nextActionId = 1
  /\ histCall = Call("new", "void", "")
  /\ ran = <<>>
  /\ pendingThumbnails = {}
  /\ thumbCall = <<>>
  /\ mediaTracks = [t \in TrackIds |-> <<>>]
  /\ mediaDuration = 0
  /\ mediaNextId = 1
  /\ jobs = <<>>
  /\ exports = <<>>
  /\ nextJobId = 1
  /\ currentProject = <<>>
  /\ projectDirty = FALSE
  /\ autosaveTimer = 0
  /\ autosaveEnabled = TRUE
  /\ lastSaveTime = <<>>
  /\ activeTimers = {}
  /\ nextTimerId = 1
  /\ now = 1
  /\ stored = <<>>
  /\ projCall = ProjCall("new", FALSE, <<>>)
  /\ transition = NewTransition(<<>>, <<>>, <<>>, <<>>, <<>>, <<>>, 1)
  /\ transCall = TransCall("new", 0, <<>>)

\* the same, with a KeyframeTrack constructed with either value of
\* options.enabled
TrackInit ==
  /\ tracks = [t \in TrackIds |-> <<>>]
  /\ duration = 0
  /\ selectedItemId = 0
  /\ nextItemId = 1
  /\ playhead = 0
  /\ isDirty = FALSE
  /\ nextKfId = 1
  /\ storeCall = StoreCall("create", FALSE, <<>>)
  /\ clip = <<>>
  /\ newClip = <<>>
  /\ clipCall = [op |-> "none", arg |-> 0]
  /\ nextClipId = 1
  /\ keyframes = <<>>
  /\ nextKeyframeId = 1
  /\ enabled \in BOOLEAN
  /\ kfCall = [time |-> 0, ret |-> <<>>]
  /\ undoStack = <<>>
  /\ redoStack = <<>>
  /\ isExecuting = FALSE
  /\ batchMode = FALSE
  /\ batchActions = <<>>
  /\ pc = "idle"
  /\ cur = <<>>
  /\ idx = 0
  /\ doc = 0
  /\ nextActionId = 1
  /\ histCall = Call("new", "void", "")
  /\ ran = <<>>
  /\ pendingThumbnails = {}
  /\ thumbCall = <<>>
  /\ mediaTracks = [t \in TrackIds |-> <<>>]
  /\ mediaDuration = 0
  /\ mediaNextId = 1
  /\ jobs = <<>>
  /\ exports = <<>>
  /\ nextJobId = 1
  /\ currentProject = <<>>
  /\ projectDirty = FALSE
  /\ autosaveTimer = 0
  /\ autosaveEnabled = TRUE
  /\ lastSaveTime = <<>>
  /\ activeTimers = {}
  /\ nextTimerId = 1
  /\ now = 1
  /\ stored = <<>>
  /\ projCall = ProjCall("new", FALSE, <<>>)
  /\ transition = NewTransition(<<>>, <<>>, <<>>, <<>>, <<>>, <<>>, 1)
  /\ transCall = TransCall("new", 0, <<>>)

\* the same, with an AudioClip constructed with audio settings in its
\* options
VolumeInit ==
  /\ tracks = [t \in TrackIds |-> <<>>]
  /\ duration = 0
  /\ selectedItemId = 0
  /\ nextItemId = 1
  /\ playhead = 0
  /\ isDirty = FALSE
  /\ nextKfId = 1
  /\ storeCall = StoreCall("create", FALSE, <<>>)
  /\ \E v \in VolumeOpts, m \in MutedOpts, fi \in FadeInOpts,
        fo \in FadeOutOpts, d \in ClipDurationOpts :
       clip = <<WithSettings(AudioClipOf(1, DefaultClipName, <<>>, d, <<>>,
                                         <<>>, d),
                             v, m, fi, fo)>>
  /\ newClip = <<>>
  /\ clipCall = ClipCall("new", 0)
  /\ nextClipId = 2
  /\ keyframes = <<>>
  /\ nextKeyframeId = 1
  /\ enabled = TRUE
  /\ kfCall = [time |-> 0, ret |-> <<>>]
  /\ undoStack = <<>>
  /\ redoStack = <<>>
  /\ isExecuting = FALSE
  /\ batchMode = FALSE
  /\ batchActions = <<>>
  /\ pc = "idle"
  /\ cur = <<>>
  /\ idx = 0
  /\ doc = 0
  /\ nextActionId = 1
  /\ histCall = Call("new", "void", "")
  /\ ran = <<>>
  /\ pendingThumbnails = {}
  /\ thumbCall = <<>>
  /\ mediaTracks = [t \in TrackIds |-> <<>>]
  /\ mediaDuration = 0
  /\ mediaNextId = 1
  /\ jobs = <<>>
  /\ exports = <<>>
  /\ nextJobId = 1
  /\ currentProject = <<>>
  /\ projectDirty = FALSE
  /\ autosaveTimer = 0
  /\ autosaveEnabled = TRUE
  /\ lastSaveTime = <<>>
  /\ activeTimers = {}
  /\ nextTimerId = 1
  /\ now = 1
  /\ stored = <<>>
  /\ projCall = ProjCall("new", FALSE, <<>>)
  /\ transition = NewTransition(<<>>, <<>>, <<>>, <<>>, <<>>, <<>>, 1)
  /\ transCall = TransCall("new", 0, <<>>)

\* the same, with a Transition constructed from options
TransitionInit ==
  /\ tracks = [t \in TrackIds |-> <<>>]
  /\ duration = 0
  /\ selectedItemId = 0
  /\ nextItemId = 1
  /\ playhead = 0
  /\ isDirty = FALSE
  /\ nextKfId = 1
  /\ storeCall = StoreCall("create", FALSE, <<>>)
  /\ clip = <<>>
  /\ newClip = <<>>
  /\ clipCall = [op |-> "none", arg |-> 0]
  /\ nextClipId = 1
  /\ keyframes = <<>>
  /\ nextKeyframeId = 1
  /\ enabled = TRUE
  /\ kfCall = [time |-> 0, ret |-> <<>>]
  /\ undoStack = <<>>
  /\ redoStack = <<>>
  /\ isExecuting = FALSE
  /\ batchMode = FALSE
  /\ batchActions = <<>>
  /\ pc = "idle"
  /\ cur = <<>>
  /\ idx = 0
  /\ doc = 0
  /\ nextActionId = 1
  /\ histCall = Call("new", "void", "")
  /\ ran = <<>>
  /\ pendingThumbnails = {}
  /\ thumbCall = <<>>
  /\ mediaTracks = [t \in TrackIds |-> <<>>]
  /\ mediaDuration = 0
  /\ mediaNextId = 1
  /\ jobs = <<>>
  /\ exports = <<>>
  /\ nextJobId = 1
  /\ currentProject = <<>>
  /\ projectDirty = FALSE
  /\ autosaveTimer = 0
  /\ autosaveEnabled = TRUE
  /\ lastSaveTime = <<>>
  /\ activeTimers = {}
  /\ nextTimerId = 1
  /\ now = 1
  /\ stored = <<>>
  /\ projCall = ProjCall("new", FALSE, <<>>)
  /\ \E ty \in TypeOpts, d \in TransDurationOpts, e \in EasingOpts,
        c \in ClipRefOpts :
       transition = NewTransition(<<>>, ty, d, e, c, c, 1)
  /\ transCall = TransCall("new", 0, <<>>)

\* record(type, {execute, before, after, restore}) called by the application:
\* execute() makes the edit, then the action is pushed
Record ==
  /\ pc = "idle"
  /\ nextActionId <= MaxActions
  /\ doc' = nextActionId
  /\ SetH(PushActionH(H, OpAction(nextActionId, doc, nextActionId)))
  /\ nextActionId' = nextActionId + 1
  /\ histCall' = Call("pushAction", "void", "")
  /\ UNCHANGED notHistVars
  /\ UNCHANGED <<pc, cur, idx, ran>>

\* pushAction called from inside an undo or redo closure (restoring the
\* state re-enters the code that records edits)
PushFromEffect ==
  /\ pc # "idle"
  /\ nextActionId <= MaxActions
  /\ SetH(PushActionH(H, OpAction(nextActionId, doc, doc)))
  /\ nextActionId' = nextActionId + 1
  /\ histCall' = Call("pushAction", "void", "")
  /\ UNCHANGED notHistVars
  /\ UNCHANGED <<pc, cur, idx, doc, ran>>

StartBatch ==
  /\ pc = "idle"
  /\ SetH(StartBatchH(H))
  /\ histCall' = Call("startBatch", "void", "")
  /\ UNCHANGED notHistVars
  /\ UNCHANGED <<pc, cur, idx, doc, nextActionId, ran>>

EndBatch(label) ==
  /\ pc = "idle"
  /\ (batchMode /\ Len(batchActions) > 0) => nextActionId <= MaxActions
  /\ SetH(EndBatchH(H, label, nextActionId))
  /\ nextActionId' = IF batchMode /\ Len(batchActions) > 0
                       THEN nextActionId + 1 ELSE nextActionId
  /\ histCall' = Call("endBatch", "void", label)
  /\ UNCHANGED notHistVars
  /\ UNCHANGED <<pc, cur, idx, doc, ran>>

CancelBatch ==
  /\ pc = "idle"
  /\ SetH(CancelBatchH(H))
  /\ histCall' = Call("cancelBatch", "void", "")
  /\ UNCHANGED notHistVars
  /\ UNCHANGED <<pc, cur, idx, doc, nextActionId, ran>>

Clear ==
  /\ pc = "idle"
  /\ SetH(ClearH(H))
  /\ histCall' = Call("clear", "void", "")
  /\ UNCHANGED notHistVars
  /\ UNCHANGED <<pc, cur, idx, doc, nextActionId, ran>>

\* undo() is called: it returns false, or pops and reaches the first closure
UndoCall ==
  /\ pc = "idle"
  /\ SetH(UndoCallH(H))
  /\ IF CanUndo(H)
       THEN /\ pc' = "undo"
            /\ cur' = <<UndoPopped(H)>>
            /\ histCall' = Call("undo", "running", "")
       ELSE /\ histCall' = Call("undo", "false", "")
            /\ UNCHANGED <<pc, cur>>
  /\ idx' = 0
  /\ ran' = <<>>
  /\ UNCHANGED <<doc, nextActionId>>
  /\ UNCHANGED notHistVars

\* the next undo closure runs and returns: restore(before)
UndoEffect ==
  /\ pc = "undo"
  /\ idx < Len(Subs(cur[1]))
  /\ LET sub == UndoSub(cur[1], idx)
     IN /\ doc' = sub.before
        /\ ran' = Append(ran, <<"undo", sub.id>>)
  /\ idx' = idx + 1
  /\ UNCHANGED <<undoStack, redoStack, isExecuting, batchMode, batchActions,
                 pc, cur, nextActionId, histCall>>
  /\ UNCHANGED notHistVars

\* the next closure throws
EffectThrows ==
  /\ pc # "idle"
  /\ idx < Len(Subs(cur[1]))
  /\ LET sub == IF pc = "undo" THEN UndoSub(cur[1], idx)
                               ELSE RedoSub(cur[1], idx)
     IN ran' = Append(ran, <<pc, sub.id>>)
  /\ SetH(ThrowH(H))
  /\ histCall' = Call(pc, "threw", "")
  /\ UNCHANGED notHistVars
  /\ pc' = "idle"
  /\ cur' = <<>>
  /\ idx' = 0
  /\ UNCHANGED <<doc, nextActionId>>

\* every closure has returned: undo() pushes the action and returns true
UndoReturn ==
  /\ pc = "undo"
  /\ idx = Len(Subs(cur[1]))
  /\ SetH(UndoReturnH(H, cur[1]))
  /\ histCall' = Call("undo", "true", "")
  /\ UNCHANGED notHistVars
  /\ pc' = "idle"
  /\ cur' = <<>>
  /\ idx' = 0
  /\ UNCHANGED <<doc, nextActionId, ran>>

RedoCall ==
  /\ pc = "idle"
  /\ SetH(RedoCallH(H))
  /\ IF CanRedo(H)
       THEN /\ pc' = "redo"
            /\ cur' = <<RedoPopped(H)>>
            /\ histCall' = Call("redo", "running", "")
       ELSE /\ histCall' = Call("redo", "false", "")
            /\ UNCHANGED <<pc, cur>>
  /\ idx' = 0
  /\ ran' = <<>>
  /\ UNCHANGED <<doc, nextActionId>>
  /\ UNCHANGED notHistVars

\* the next redo closure runs and returns: restore(after)
RedoEffect ==
  /\ pc = "redo"
  /\ idx < Len(Subs(cur[1]))
  /\ LET sub == RedoSub(cur[1], idx)
     IN /\ doc' = sub.after
        /\ ran' = Append(ran, <<"redo", sub.id>>)
  /\ idx' = idx + 1
  /\ UNCHANGED <<undoStack, redoStack, isExecuting, batchMode, batchActions,
                 pc, cur, nextActionId, histCall>>
  /\ UNCHANGED notHistVars

RedoReturn ==
  /\ pc = "redo"
  /\ idx = Len(Subs(cur[1]))
  /\ SetH(RedoReturnH(H, cur[1]))
  /\ histCall' = Call("redo", "true", "")
  /\ UNCHANGED notHistVars
  /\ pc' = "idle"
  /\ cur' = <<>>
  /\ idx' = 0
  /\ UNCHANGED <<doc, nextActionId, ran>>

HistNext ==
  \/ Record
  \/ PushFromEffect
  \/ StartBatch
  \/ \E l \in BatchLabels : EndBatch(l)
  \/ CancelBatch
  \/ Clear
  \/ UndoCall
  \/ UndoEffect
  \/ EffectThrows
  \/ UndoReturn
  \/ RedoCall
  \/ RedoEffect
  \/ RedoReturn

----------------------------------------------------------------------------
(* Specifications *)

\* the editor store alone
StoreSpec ==
  /\ Init
  /\ [][StoreNext]_vars

\* the store under reordering and moves between tracks
ArrangeSpec ==
  /\ Init
  /\ [][ArrangeNext]_vars

\* the store under every arrangement operation
TimelineSpec ==
  /\ Init
  /\ [][TimelineNext]_vars

\* splitting clips of the store and an AudioClip
SplitSpec ==
  /\ Init
  /\ [][SplitNext]_vars

\* a KeyframeTrack and the volume keyframes of the clips of the store
KeyframeSpec ==
  /\ Init
  /\ [][KeyframeNext]_vars

\* a KeyframeTrack under edits and value queries
TrackSpec ==
  /\ TrackInit
  /\ [][TrackNext]_vars

\* an AudioClip under volume queries
VolumeSpec ==
  /\ VolumeInit
  /\ [][VolumeNext]_vars

\* a Transition alone
TransitionSpec ==
  /\ TransitionInit
  /\ [][TransitionNext]_vars

\* the project manager under loading and saving
ProjectSpec ==
  /\ Init
  /\ [][ProjectNext]_vars

\* the project manager under autosave
AutosaveSpec ==
  /\ Init
  /\ [][AutosaveNext]_vars

\* the export pipeline with the recorder and the server responding: a
\* recorder that was told to stop fires its stop event, and a fetch that was
\* sent settles; nothing makes the user cancel, the stream end or the
\* recorder fail
ExportFairSpec ==
  /\ Init
  /\ [][ExportNext]_vars
  /\ \A id \in JobIds :
       /\ WF_vars(RecorderStopRequested(id))
       /\ WF_vars(\E ok \in BOOLEAN : ServerResponds(id, ok))

\* the editor store while thumbnails are generated
ThumbnailSpec ==
  /\ Init
  /\ [][ThumbnailNext]_vars

\* the autosave timer of the project manager
TimerSpec ==
  /\ Init
  /\ [][TimerNext]_vars

\* the mediaStore alone
MediaSpec ==
  /\ Init
  /\ [][MediaNext]_vars

\* the export pipeline alone
ExportSpec ==
  /\ Init
  /\ [][ExportNext]_vars

\* the store under removal and selection
SelectionSpec ==
  /\ Init
  /\ [][SelectionNext]_vars

\* the history manager alone
HistorySpec ==
  /\ Init
  /\ [][HistNext]_vars

----------------------------------------------------------------------------
(* Claims about the editor store *)

\* the maximum of startTime + duration over all clips, 0 when there is none
MaxClipEnd(trs) ==
  IF AllItems(trs) = {} THEN 0
  ELSE CHOOSE e \in {it.startTime + it.duration : it \in AllItems(trs)} :
         \A it \in AllItems(trs) : it.startTime + it.duration <= e

\* C1: after every call of addMediaItem, removeMediaItem, moveMediaItem and
\* updateItemDuration, whatever track or clip id the call names, the stored
\* duration is the maximum clip end over all tracks, and 0 with no clip.
C1_DurationIsMaxClipEnd == duration = MaxClipEnd(tracks)

\* the clip with this id is on this track
OnTrack(trs, t, itemId) ==
  /\ t \in TrackIds
  /\ \E k \in 1..Len(trs[t]) : trs[t][k].id = itemId

\* the clip of a track with this id
ClipOf(trs, t, itemId) ==
  trs[t][CHOOSE k \in 1..Len(trs[t]) : trs[t][k].id = itemId]

\* how many clips of all tracks have this id
Occurrences(trs, itemId) ==
  Cardinality({<<t, k>> \in TrackIds \X (1..MaxItems) :
                 k <= Len(trs[t]) /\ trs[t][k].id = itemId})

\* a 0-based index that names a clip of the track
InRange(trs, t, index) == 0 <= index /\ index < Len(trs[t])

RECURSIVE DurationsBefore(_, _)
DurationsBefore(items, k) ==
  IF k <= 1 THEN 0
  ELSE DurationsBefore(items, k - 1) + items[k - 1].duration

\* C11: reorderItems on an existing track with both indices in range keeps
\* the clips of the track (same clips, only their start times may differ),
\* puts the clip that was at fromIndex at toIndex, makes every start time
\* the sum of the durations of the clips before it, and leaves every other
\* track as it was.
C11_ReorderRepacks ==
  [][\A t \in TrackIds, f \in CallIndices, g \in CallIndices :
       (InRange(tracks, t, f) /\ InRange(tracks, t, g)
          /\ ReorderItems(t, f, g))
       => /\ storeCall'.threw = FALSE
          /\ Len(tracks'[t]) = Len(tracks[t])
          /\ \A i \in 1..Len(tracks[t]) : \E j \in 1..Len(tracks'[t]) :
               tracks'[t][j] =
                 [tracks[t][i] EXCEPT !.startTime = tracks'[t][j].startTime]
          /\ tracks'[t][g + 1].id = tracks[t][f + 1].id
          /\ \A j \in 1..Len(tracks'[t]) :
               tracks'[t][j].startTime = DurationsBefore(tracks'[t], j)
          /\ \A u \in TrackIds \ {t} : tracks'[u] = tracks[u]]_vars

\* a reorder has put a later-created clip in front of an earlier one and
\* packed the second directly behind the first
C11_Witness ==
  /\ storeCall.op = "reorderItems"
  /\ storeCall.threw = FALSE
  /\ \E t \in TrackIds :
       /\ Len(tracks[t]) >= 2
       /\ tracks[t][1].id > tracks[t][2].id
       /\ tracks[t][1].startTime = 0
       /\ tracks[t][2].startTime = tracks[t][1].duration

\* C12: moveItemToTrack between two existing tracks, the clip being on the
\* source track, is one transition after which the clip is on the
\* destination track only, once, with startTime = newStartTime and its other
\* fields unchanged; it is never on neither track or on both.
C12_MoveToTrackAtomic ==
  [][\A f \in TrackIds, t \in TrackIds, i \in CallItemIds,
        s \in NewStarts \cup TrackStarts :
       (OnTrack(tracks, f, i) /\ MoveItemToTrack(f, t, i, s))
       => /\ Occurrences(tracks', i) = 1
          /\ OnTrack(tracks', t, i)
          /\ ClipOf(tracks', t, i) =
               [ClipOf(tracks, f, i) EXCEPT !.startTime = s]]_vars

\* a clip has been moved to the other track, next to a clip already there
C12_Witness ==
  /\ storeCall.op = "moveItemToTrack"
  /\ \E t \in TrackIds :
       /\ Len(tracks[t]) >= 2
       /\ Last(tracks[t]).startTime \in TrackStarts
       /\ \A u \in TrackIds \ {t} : tracks[u] = <<>>

\* the call leaves the tracks, their clips and the aggregate duration alone
ArrangementUnchanged == UNCHANGED <<tracks, duration>>

InvalidAdd ==
  \A t \in CallTrackIds \ TrackIds, s \in StartOpts, d \in DurationOpts :
    AddMediaItem(t, s, d, <<>>) => ArrangementUnchanged

InvalidRemove ==
  \A t \in CallTrackIds, i \in CallItemIds :
    (~OnTrack(tracks, t, i) /\ RemoveMediaItem(t, i)) => ArrangementUnchanged

InvalidMove ==
  \A t \in CallTrackIds, i \in CallItemIds, s \in NewStarts \cup BadStarts :
    (~OnTrack(tracks, t, i) /\ MoveMediaItem(t, i, s)) => ArrangementUnchanged

InvalidMoveToTrack ==
  \A f \in CallTrackIds, t \in CallTrackIds, i \in CallItemIds,
     s \in NewStarts \cup BadStarts :
    ((~OnTrack(tracks, f, i) \/ t \notin TrackIds)
       /\ MoveItemToTrack(f, t, i, s)) => ArrangementUnchanged

InvalidReorder ==
  \A t \in CallTrackIds, f \in CallIndices, g \in CallIndices :
    ((t \notin TrackIds \/ ~InRange(tracks, t, f) \/ ~InRange(tracks, t, g))
       /\ ReorderItems(t, f, g))
    => (storeCall'.threw = FALSE /\ ArrangementUnchanged)

InvalidUpdateDuration ==
  \A t \in CallTrackIds, i \in CallItemIds,
     d \in NewDurations \cup BadDurations :
    (~OnTrack(tracks, t, i) /\ UpdateItemDuration(t, i, d))
    => ArrangementUnchanged

InvalidSplit ==
  \A t \in CallTrackIds, i \in CallItemIds :
    (~OnTrack(tracks, t, i) /\ SplitClip(t, i))
    => (storeCall'.ret = <<>> /\ ArrangementUnchanged)

\* C13: addMediaItem, removeMediaItem, moveMediaItem, moveItemToTrack,
\* reorderItems, updateItemDuration and splitClip, called with a track id no
\* track has, a clip id not on the named track or an index out of range,
\* raise no error and leave the tracks, their clips and the aggregate
\* duration unchanged.
C13_InvalidCallsAreNoOps ==
  [][/\ InvalidAdd
     /\ InvalidRemove
     /\ InvalidMove
     /\ InvalidMoveToTrack
     /\ InvalidReorder
     /\ InvalidUpdateDuration
     /\ InvalidSplit]_vars

\* C14: removeMediaItem removes exactly the named clip from the named track
\* and sets the selection to null exactly when the removed clip was the
\* selected one; when the clip is not on the named track the call changes
\* neither the tracks, nor the duration, nor the selection.
C14_RemoveAndSelection ==
  [][\A t \in CallTrackIds, i \in CallItemIds :
       RemoveMediaItem(t, i)
       => IF OnTrack(tracks, t, i)
            THEN /\ tracks' = [u \in TrackIds |->
                                 IF u = t
                                   THEN SelectSeq(tracks[u],
                                                  LAMBDA it : it.id # i)
                                   ELSE tracks[u]]
                 /\ selectedItemId' =
                      IF selectedItemId = i THEN 0 ELSE selectedItemId
            ELSE UNCHANGED <<tracks, duration, selectedItemId>>]_vars

\* the split point of splitClip on a clip: the playhead, relative to the clip
SplitPoint(trs, t, i) == playhead - ClipOf(trs, t, i).startTime

StoreSplitRejected ==
  \A t \in TrackIds, i \in CallItemIds :
    (/\ OnTrack(tracks, t, i)
     /\ \/ SplitPoint(tracks, t, i) <= 0
        \/ SplitPoint(tracks, t, i) >= ClipOf(tracks, t, i).duration
     /\ SplitClip(t, i))
    => /\ storeCall'.ret = <<>>
       /\ UNCHANGED <<tracks, duration, selectedItemId, nextItemId,
                      playhead, isDirty, nextKfId>>

ClipSplitRejected ==
  \A s \in SplitTimes :
    (/\ clip # <<>>
     /\ s <= 0 \/ s >= clip[1].duration
     /\ ClipSplit(s))
    => /\ newClip' = <<>>
       /\ UNCHANGED <<clip, nextClipId>>

\* C15: a split whose split point is <= 0 or >= the duration of the clip
\* returns null, creates no clip and leaves the original clip, its keyframes
\* and the rest of the state unchanged; so for splitClip of the store (split
\* point: the playhead relative to the clip) and for AudioClip.split.
C15_InvalidSplitReturnsNull ==
  [][StoreSplitRejected /\ ClipSplitRejected]_vars

\* both kinds of clip carry a keyframe and have just refused a split at
\* their end
C15_Witness ==
  /\ storeCall.op = "splitClip"
  /\ storeCall.ret = <<>>
  /\ \E k \in 1..Len(tracks["audio-track"]) :
       LET it == tracks["audio-track"][k]
       IN /\ playhead = it.startTime + it.duration
          /\ KeyframesOf(it) # <<>>
  /\ clipCall.op = "split"
  /\ newClip = <<>>
  /\ clip # <<>>
  /\ clipCall.arg = clip[1].duration
  /\ clip[1].volumeKeyframes # <<>>

StoreSplitDivides ==
  \A t \in TrackIds, i \in CallItemIds :
    (/\ OnTrack(tracks, t, i)
     /\ 0 < SplitPoint(tracks, t, i)
     /\ SplitPoint(tracks, t, i) < ClipOf(tracks, t, i).duration
     /\ SplitClip(t, i))
    => LET old == ClipOf(tracks, t, i)
           s == SplitPoint(tracks, t, i)
       IN /\ storeCall'.ret # <<>>
          /\ Len(tracks'[t]) = Len(tracks[t]) + 1
          /\ \A u \in TrackIds \ {t} : tracks'[u] = tracks[u]
          /\ Occurrences(tracks', i) = 1
          /\ ClipOf(tracks', t, i).startTime = old.startTime
          /\ ClipOf(tracks', t, i).duration = s
          /\ Occurrences(tracks, storeCall'.ret[1]) = 0
          /\ Occurrences(tracks', storeCall'.ret[1]) = 1
          /\ OnTrack(tracks', t, storeCall'.ret[1])
          /\ ClipOf(tracks', t, storeCall'.ret[1]).startTime
               = old.startTime + s
          /\ ClipOf(tracks', t, storeCall'.ret[1]).duration
               = old.duration - s
          /\ ClipOf(tracks', t, i).duration
               + ClipOf(tracks', t, storeCall'.ret[1]).duration
               = old.duration

ClipSplitDivides ==
  \A s \in SplitTimes :
    (/\ clip # <<>>
     /\ 0 < s
     /\ s < clip[1].duration
     /\ ClipSplit(s))
    => /\ newClip' # <<>>
       /\ clip'[1].startTime = clip[1].startTime
       /\ clip'[1].duration = s
       /\ newClip'[1].id # clip[1].id
       /\ newClip'[1].startTime = clip[1].startTime + s
       /\ newClip'[1].duration = clip[1].duration - s
       /\ clip'[1].duration + newClip'[1].duration = clip[1].duration

\* C16: a split at t = startTime + s with 0 < s < duration leaves the
\* original clip its startTime and gives it duration s, and makes exactly
\* one new clip, on the same track, with startTime t and duration (old
\* duration - s): the two durations add up to the duration before the
\* split.
C16_SplitDividesDuration ==
  [][StoreSplitDivides /\ ClipSplitDivides]_vars

\* a clip of the store and the AudioClip have both been split in two
C16_Witness ==
  /\ storeCall.op = "splitClip"
  /\ storeCall.ret # <<>>
  /\ Len(tracks["audio-track"]) = 2
  /\ tracks["audio-track"][2].startTime = playhead
  /\ clipCall.op = "split"
  /\ newClip # <<>>
  /\ newClip[1].startTime = clip[1].startTime + clip[1].duration

\* the keyframes `old` of a clip split at s are divided between `kept`
\* (original clip) and `moved` (new clip): those before s stay as they are,
\* those at or after s move with their time reduced by s, none is on both
KeyframesDivided(old, kept, moved, s) ==
  /\ Len(kept) + Len(moved) = Len(old)
  /\ \A k \in 1..Len(old) :
       IF old[k].time < s
         THEN /\ old[k] \in Range(kept)
              /\ \A m \in Range(moved) : m.id # old[k].id
         ELSE /\ [old[k] EXCEPT !.time = old[k].time - s] \in Range(moved)
              /\ \A m \in Range(kept) : m.id # old[k].id

StoreSplitMovesKeyframes ==
  \A t \in TrackIds, i \in CallItemIds :
    (/\ OnTrack(tracks, t, i)
     /\ KeyframesOf(ClipOf(tracks, t, i)) # <<>>
     /\ ClipOf(tracks, t, i).trimStart # <<>>
     /\ SplitClip(t, i)
     /\ storeCall'.ret # <<>>)
    => LET old == ClipOf(tracks, t, i)
           s == SplitPoint(tracks, t, i)
           new == ClipOf(tracks', t, storeCall'.ret[1])
       IN /\ KeyframesDivided(KeyframesOf(old),
                              KeyframesOf(ClipOf(tracks', t, i)),
                              KeyframesOf(new), s)
          /\ new.trimStart = <<old.trimStart[1] + s>>

ClipSplitMovesKeyframes ==
  \A s \in SplitTimes :
    (/\ clip # <<>>
     /\ clip[1].volumeKeyframes # <<>>
     /\ ClipSplit(s)
     /\ newClip' # <<>>)
    => /\ KeyframesDivided(clip[1].volumeKeyframes,
                           clip'[1].volumeKeyframes,
                           newClip'[1].volumeKeyframes, s)
       /\ newClip'[1].trimStart = clip[1].trimStart + s

\* C17: splitting an audio clip that has volume keyframes at offset s leaves
\* the keyframes with time < s on the original clip, puts those with time
\* >= s on the new clip only, their time reduced by s, none on both, and
\* gives the new clip trimStart = trimStart of the original + s; on every
\* split path, AudioClip.split and splitClip of the store.
C17_SplitMovesKeyframes ==
  [][StoreSplitMovesKeyframes /\ ClipSplitMovesKeyframes]_vars

\* C18: in every state of the store reached by addMediaItem, moveMediaItem,
\* moveItemToTrack, reorderItems, updateItemDuration and splitClip, whatever
\* numbers they are handed, every clip has startTime >= 0 and duration > 0.
C18_ClipsWellFormed ==
  \A it \in AllItems(tracks) : it.startTime >= 0 /\ it.duration > 0

\* ascending by time
SortedByTime(kfs) ==
  \A a \in 1..Len(kfs), b \in 1..Len(kfs) :
    a < b => kfs[a].time <= kfs[b].time

\* C19: the keyframes of a KeyframeTrack (under addKeyframe, updateKeyframe
\* and removeKeyframe) and the volumeKeyframes of every clip of the store
\* (under addVolumeKeyframe and removeVolumeKeyframe) are always sorted
\* ascending by time.
C19_KeyframesSorted ==
  /\ SortedByTime(keyframes)
  /\ \A it \in AllItems(tracks) : SortedByTime(KeyframesOf(it))

\* in both lists a keyframe created later stands before one created
\* earlier, strictly earlier in time
C19_Witness ==
  /\ Len(keyframes) = 2
  /\ keyframes[1].id > keyframes[2].id
  /\ keyframes[1].time < keyframes[2].time
  /\ \E it \in AllItems(tracks) :
       /\ Len(KeyframesOf(it)) = 2
       /\ KeyframesOf(it)[1].id > KeyframesOf(it)[2].id
       /\ KeyframesOf(it)[1].time < KeyframesOf(it)[2].time

\* C20: a keyframe list reached by addKeyframe, updateKeyframe (changes of
\* time included) and removeKeyframe never holds two keyframes whose times
\* are within the tolerance of each other.
C20_NoNearDuplicates ==
  \A a \in 1..Len(keyframes), b \in 1..Len(keyframes) :
    a # b => Abs(keyframes[a].time - keyframes[b].time) * 100
               > KeyframeTolerance

\* C21: every stored keyframe value lies within the [min, max] range of its
\* property after any adds and updates with arbitrary values: the keyframes
\* of a KeyframeTrack within the range of the track, the volume keyframes of
\* an AudioClip and of the clips of the store within [0, 1].
C21_ValuesInRange ==
  /\ \A k \in 1..Len(keyframes) :
       RangeMin <= keyframes[k].value /\ keyframes[k].value <= RangeMax
  /\ clip # <<>> =>
       \A k \in 1..Len(clip[1].volumeKeyframes) :
         /\ MinVolume <= clip[1].volumeKeyframes[k].value
         /\ clip[1].volumeKeyframes[k].value <= MaxVolume
  /\ \A it \in AllItems(tracks) : \A k \in 1..Len(KeyframesOf(it)) :
       /\ MinVolume <= KeyframesOf(it)[k].value
       /\ KeyframesOf(it)[k].value <= MaxVolume

\* the keyframe at or before `time` that is latest in the list, and the one
\* after `time` that is earliest
LatestAtOrBefore(kfs, time) ==
  kfs[CHOOSE i \in 1..Len(kfs) :
        /\ kfs[i].time <= time
        /\ \A j \in (i + 1)..Len(kfs) : kfs[j].time > time]
EarliestAfter(kfs, time) ==
  kfs[CHOOSE i \in 1..Len(kfs) :
        /\ kfs[i].time > time
        /\ \A j \in 1..(i - 1) : kfs[j].time <= time]

\* the value the interpolation rule gives on a sorted keyframe list
ExpectedValue(kfs, en, time) ==
  IF ~en \/ kfs = <<>> THEN FInt(RangeDefault)
  ELSE IF time < kfs[1].time THEN FInt(kfs[1].value)
  ELSE IF time >= Last(kfs).time THEN FInt(Last(kfs).value)
  ELSE LET before == LatestAtOrBefore(kfs, time)
           after == EarliestAfter(kfs, time)
           progress == Frac(time - before.time, after.time - before.time)
       IN FAdd(FInt(before.value),
               FMul(FInt(after.value - before.value),
                    ApplyEasing(progress, before.easing)))

\* C22: getValueAtTime(t) returns the default of the property when the track
\* is disabled or has no keyframes, the value of the first keyframe when t
\* is before it, the value of the last keyframe when t is at or after it,
\* and otherwise before.value + (after.value - before.value) * ease(progress)
\* with progress = (t - before.time) / (after.time - before.time) and the
\* easing of the earlier keyframe, never of the later one.
C22_ValueAtTime ==
  [][\A t \in QueryTimes :
       GetValueAtTime(t) =>
         kfCall'.ret = <<ExpectedValue(keyframes, enabled, t)>>]_vars

\* a query between two keyframes of different values and easings returned
\* an eased value that is no whole number of tenths
C22_Witness ==
  /\ enabled
  /\ Len(keyframes) = 2
  /\ keyframes[1].easing = "ease-in"
  /\ keyframes[2].easing = "step"
  /\ keyframes[1].time < kfCall.time
  /\ kfCall.time < keyframes[2].time
  /\ kfCall.ret = <<ValueAtTime(keyframes, enabled, kfCall.time)>>
  /\ kfCall.ret[1].d # 1

\* C23: in every state of an enabled track reached by addKeyframe,
\* updateKeyframe and removeKeyframe, getValueAtTime(kf.time) is exactly
\* kf.value for every keyframe kf whatever its easing, and a call of
\* getValueAtTime leaves the track as it is.
C23_ExactAtKeyframes ==
  /\ [](enabled =>
         \A k \in 1..Len(keyframes) :
           ValueAtTime(keyframes, enabled, keyframes[k].time)
             = FInt(keyframes[k].value))
  /\ [][\A t \in QueryTimes :
          GetValueAtTime(t) => UNCHANGED <<keyframes, enabled>>]_vars

\* the fade-out of the clip does not reach into its fade-in
NoFadeOutOverlap(c) ==
  ~c.fadeOut.enabled \/ c.duration - c.fadeOut.duration >= c.fadeIn.duration

\* `time` is before the fade-out of the clip begins
OutsideFadeOut(c, time) ==
  ~c.fadeOut.enabled \/ time < c.duration - c.fadeOut.duration

C25_Progress ==
  [][\A e \in ElapsedTimes :
       GetProgress(e) =>
         LET ret == transCall'.ret[1]
         IN IF transition.type = "none" THEN ret = FInt(0)
            ELSE /\ transition.duration # 0 =>
                      ret = TransitionEasing(
                              Clamp01(FDiv(e, transition.duration)),
                              transition.easing)
                 /\ e <= 0 => ret = FInt(0)
                 /\ e >= transition.duration => ret = FInt(1)
                 /\ FLeq(FInt(0), ret) /\ FLeq(ret, FInt(1))]_vars

\* the duration of the transition is within the range of its type
DurationInRange(tr) ==
  /\ MinDurationOf(tr.type) <= tr.duration
  /\ tr.duration <= MaxDurationOf(tr.type)

\* C26: in every state of a Transition reached by construction with any
\* type and duration options (fromJSON and the default constructor
\* included), setType and setDuration, the duration lies within
\* [minDuration, maxDuration] of the current type; setType brings the
\* existing duration into the range of the new type instead of resetting it
\* to the default, and setType with an unknown type changes nothing.
C26_DurationInRange ==
  /\ [](transition.type \in TransitionTypes => DurationInRange(transition))
  /\ [][\A t \in SetTypes :
          SetType(t) =>
            IF t \in TransitionTypes
              THEN /\ transition'.type = t
                   /\ transition'.duration =
                        Max2(MinDurationOf(t),
                             Min2(MaxDurationOf(t), transition.duration))
              ELSE transition' = transition]_vars

\* the snapshot is an unparsable string, or its value is no object
Malformed(data) ==
  \/ ParseThrows(data)
  \/ LoadedValue(data).kind # "object"

\* C27: a load of a malformed snapshot (an unparsable JSON string, or a
\* value that is not a project object) raises an error and leaves the
\* previously loaded project, the dirty flag and the autosave timer exactly
\* as they were before the call: it is never partially applied.
C27_FailedLoadAtomic ==
  [][\A d \in LoadInputs :
       (Malformed(d) /\ Load(d)) =>
         /\ projCall'.threw
         /\ UNCHANGED <<currentProject, projectDirty, autosaveTimer,
                        activeTimers>>]_vars

\* the fields of a project but its modified timestamp
ExceptModified(project) ==
  [f \in DOMAIN project \ {"modified"} |-> project[f]]

\* C28: serialisation round-trips on every enumerated field but the
\* modified timestamp: Transition.fromJSON(transition.toJSON()) has the
\* fields of the transition (of any type, after setType and setDuration),
\* AudioClip.fromJSON(clip.toJSON()) the fields of the clip, and
\* ProjectManager.load(ProjectManager.save()) the fields of the project.
C28_RoundTrip ==
  /\ [][TransitionRoundTrip => transCall'.ret[1] = transition]_vars
  /\ [][ClipRoundTrip => clipCall'.ret[1] = clip[1]]_vars
  /\ [][SaveAndLoad =>
          ExceptModified(currentProject'[1])
            = ExceptModified(currentProject[1])]_vars

\* C29: performAutosave saves only when a project exists and is dirty, and
\* never within the minimum interval of the previous save, however often
\* it is called and whatever edits and saves occur: a save made by
\* autosave comes at least the minimum interval after the save before it.
C29_AutosaveRateLimit ==
  [][\A ok \in BOOLEAN :
       (/\ PerformAutosave(ok)
        /\ <<currentProject, projectDirty, lastSaveTime, stored>>'
             # <<currentProject, projectDirty, lastSaveTime, stored>>)
       => /\ currentProject # <<>>
          /\ projectDirty
          /\ lastSaveTime # <<>> =>
               now - lastSaveTime[1] >= MinChangeInterval]_vars

\* autosave saved a project exactly the minimum interval after the save
\* before it
C29_Witness ==
  /\ projCall.op = "performAutosave"
  /\ projCall.ret[1] = "saved"
  /\ projCall.ret[2] # <<>>
  /\ lastSaveTime = <<now>>
  /\ now - projCall.ret[2][1] = MinChangeInterval

\* C30: the statuses completed, failed and cancelled of an export job are
\* terminal: once the status is one of them it never changes again under
\* any interleaving of startExport, cancelJob and the callbacks of the
\* recorder; completedAt is set only while the status is terminal; and a
\* job cancelled while its export ran ends with the status cancelled.
C30_TerminalStatuses ==
  /\ [][\A id \in 1..Len(jobs) :
          jobs[id].status \in TerminalStatuses
            => jobs'[id].status = jobs[id].status]_vars
  /\ [](\A id \in 1..Len(jobs) :
          jobs[id].completedAt # <<>>
            => jobs[id].status \in TerminalStatuses)
  /\ [](\A id \in 1..Len(jobs) :
          (exports[id].cancelledDuring /\ exports[id].pc = "settled")
            => jobs[id].status = "cancelled")

\* C31: every mutating operation of the editor store pushes one reversible
\* action to the history manager, so that undo() after it restores the
\* state from before it: a step that changes the tracks puts one more
\* action on the undo stack.
C31_StorePushesHistory ==
  [][tracks' # tracks => Len(undoStack') = Len(undoStack) + 1]_vars

\* C32: in the mediaStore, after every call in any sequence of addMediaItem,
\* removeMediaItem, moveMediaItem, reorderItems and updateItemDuration, the
\* stored duration is the maximum of startTime + duration over all items on
\* all tracks.
C32_MediaDurationIsMaxEnd == mediaDuration = MaxClipEnd(mediaTracks)

\* the number of clips on all tracks
ClipCount(trs) == Len(trs["video-track"]) + Len(trs["audio-track"])

\* C33: moveItemToTrack never changes the total number of clips across all
\* tracks, for any fromTrackId, toTrackId and clip id, existing or not: a
\* clip found on the source track is never dropped and no clip is
\* duplicated.
C33_MoveKeepsClipCount ==
  [][\A f \in CallTrackIds, t \in CallTrackIds, i \in CallItemIds,
        s \in BadStarts :
       MoveItemToTrack(f, t, i, s)
         => /\ ClipCount(tracks') = ClipCount(tracks)
            /\ Cardinality(AllItems(tracks')) = ClipCount(tracks')]_vars

\* C34: in every state of the editor store reachable by setPlayhead, the
\* steps, goToStart, goToEnd, the operations on the clips, clearAll and
\* loadProject, the playhead satisfies 0 <= playhead <= duration.
C34_PlayheadInRange == 0 <= playhead /\ playhead <= duration

\* the base volume and the keyframe values of the clip are within [0, 1]
VolumesInUnit(c) ==
  /\ MinVolume <= c.volume /\ c.volume <= MaxVolume
  /\ \A k \in 1..Len(c.volumeKeyframes) :
       /\ MinVolume <= c.volumeKeyframes[k].value
       /\ c.volumeKeyframes[k].value <= MaxVolume

\* C35: getVolumeAtTime(t) lies within [0, 1] for every time t >= 0 and
\* every clip whose base volume and keyframe values are within [0, 1], for
\* every combination of mute, fade-in and fade-out settings and fade curves.
C35_VolumeInUnit ==
  [][\A t \in VolumeTimes :
       (t >= 0 /\ ClipGetVolumeAtTime(t) /\ VolumesInUnit(clip[1]))
         => /\ FLeq(FInt(MinVolume), clipCall'.ret[1])
            /\ FLeq(clipCall'.ret[1], FInt(MaxVolume))]_vars

\* C37: if the storage write inside performAutosave fails, the project
\* stays dirty and the rate-limit timestamp is not advanced, so that a later
\* tick retries; the dirty flag becomes false through autosave only when
\* the snapshot was stored.
C37_FailedAutosaveStaysDirty ==
  /\ [][(projectDirty /\ PerformAutosave(FALSE))
          => (projectDirty' /\ lastSaveTime' = lastSaveTime)]_vars
  /\ [][\A ok \in BOOLEAN :
          (projectDirty /\ ~projectDirty' /\ PerformAutosave(ok))
            => (stored' # <<>> /\ stored' = <<JsonStringify(JsObject(
                                               currentProject'[1]))>>)]_vars

\* the job with this id and the startExport call on it, once it is created
JobOf(id) == IF id <= Len(jobs) THEN jobs[id] ELSE NewJob
ExportOf(id) == IF id <= Len(exports) THEN exports[id] ELSE NoExport

\* C38: every job passed to startExport eventually reaches a terminal
\* status and the promise of startExport settles, without a cancel being
\* required, as long as the recorder or the server keeps responding.
C38_ExportTerminates ==
  \A id \in JobIds :
    (ExportOf(id).pc # "idle")
      ~> (/\ ExportOf(id).pc = "settled"
          /\ JobOf(id).status \in TerminalStatuses)

\* C39: in every state of the project manager reachable by createNew, load,
\* setAutosaveEnabled, startAutosave and stopAutosave in any order, at most
\* one autosave interval timer is active, and none is active while
\* autosaveEnabled is false.
C39_OneAutosaveTimer ==
  /\ Cardinality(activeTimers) <= 1
  /\ ~autosaveEnabled => activeTimers = {}

\* startAutosave() ran a second time: the second timer replaced the first
C39_Witness ==
  /\ projCall.op = "startAutosave"
  /\ autosaveEnabled
  /\ nextTimerId = 3
  /\ activeTimers = {2}

\* an item without its thumbnail field
WithoutThumbnail(it) == [f \in DOMAIN it \ {"thumbnail"} |-> it[f]]

\* C40: when the thumbnail callback updateItemThumbnail(trackId, clipId,
\* thumbnail) runs after that clip was removed or moved to another track,
\* the tracks, the duration and the selection of the store are unchanged: no
\* clip is re-created and no other clip is modified; when the clip is still
\* on the track only its thumbnail field changes.
C40_LateThumbnail ==
  [][\A t \in TrackIds, i \in 1..MaxItems, th \in Thumbnails :
       ThumbnailReady(t, i, th) =>
         /\ duration' = duration
         /\ selectedItemId' = selectedItemId
         /\ ~OnTrack(tracks, t, i) => tracks' = tracks
         /\ OnTrack(tracks, t, i) =>
              \A u \in TrackIds :
                /\ Len(tracks'[u]) = Len(tracks[u])
                /\ \A k \in 1..Len(tracks[u]) :
                     IF u = t /\ tracks[u][k].id = i
                       THEN /\ tracks'[u][k].thumbnail = <<th>>
                            /\ WithoutThumbnail(tracks'[u][k])
                                 = WithoutThumbnail(tracks[u][k])
                       ELSE tracks'[u][k] = tracks[u][k]]_vars

\* the callback for clip 1 ran after the clip was moved to the audio track:
\* the clip is there, without a thumbnail
C40_Witness ==
  /\ thumbCall # <<>>
  /\ thumbCall[1] = [trackId |-> "video-track", itemId |-> 1, found |-> FALSE]
  /\ OnTrack(tracks, "audio-track", 1)
  /\ "thumbnail" \notin DOMAIN ClipOf(tracks, "audio-track", 1)

----------------------------------------------------------------------------
(* Claims about the history manager *)

Ids(s) == {s[i].id : i \in 1..Len(s)}

\* ids of the actions of a list and of the sub-actions of its batches
DeepIds(s) == Ids(s) \cup UNION {Ids(s[i].actions) : i \in 1..Len(s)}

\* every action the manager still holds, on a stack, in the pending batch or
\* in the undo()/redo() call in flight
LiveIds ==
  DeepIds(undoStack) \cup DeepIds(redoStack) \cup DeepIds(batchActions)
    \cup DeepIds(cur)

Reverse(s) == [i \in 1..Len(s) |-> s[Len(s) + 1 - i]]

\* the newest k entries of s, in order
Newest(s, k) ==
  LET n == Len(s)
      m == IF n < k THEN n ELSE k
  IN SubSeq(s, n - m + 1, n)

\* the state an action's undo leaves, and the state its redo leaves
StateBefore(a) == Subs(a)[1].before
StateAfter(a)  == Last(Subs(a)).after

\* a call from the application (not from a closure) commits an action: a
\* pushAction outside batch mode, or an endBatch of a non-empty batch
PushCommits == pc = "idle" /\ histCall'.op = "pushAction" /\ ~batchMode
EndBatchCommits ==
  pc = "idle" /\ histCall'.op = "endBatch" /\ batchMode /\ Len(batchActions) > 0

\* the action such a call commits
Committed ==
  IF histCall'.op = "endBatch"
    THEN BatchAction(nextActionId, histCall'.arg, batchActions)
    ELSE OpAction(nextActionId, doc, nextActionId)

UndoReturns == pc = "undo" /\ pc' = "idle" /\ histCall'.ret = "true"
RedoReturns == pc = "redo" /\ pc' = "idle" /\ histCall'.ret = "true"

\* C2: whenever pushAction commits an action to the undo stack (directly, or
\* through endBatch of a non-empty batch), the redo stack is empty right after.
C2_CommitClearsRedo ==
  [][(PushCommits \/ EndBatchCommits) =>
       (Committed \in Range(undoStack') /\ redoStack' = <<>>)]_vars

\* push(A), undo(), push(C): C alone is on the undo stack, recorded on the
\* state undo restored, and nothing can be redone
C2_Witness ==
  /\ pc = "idle" /\ histCall.op = "pushAction"
  /\ Len(undoStack) = 1
  /\ undoStack[1].id = 2 /\ undoStack[1].before = 0
  /\ redoStack = <<>>

\* C3: every action still held after an undo() or redo() is on exactly one of
\* the two stacks: never on both, and an undo()/redo() that ends, normally or
\* by an error of the closure, leaves the action it popped on a stack.
C3_OnExactlyOneStack ==
  /\ [](Ids(undoStack) \cap Ids(redoStack) = {})
  /\ [][(pc # "idle" /\ pc' = "idle") =>
          Ids(undoStack') \cup Ids(redoStack')
            = Ids(undoStack) \cup Ids(redoStack) \cup Ids(cur)]_vars

\* C4: undo takes the actions last committed first and redo puts them back in
\* commit order: the undo stack followed by the reversed redo stack is always
\* in commit order, an undo() moves the top of the undo stack to the redo stack
\* and leaves the state before that action, a redo() moves it back and leaves
\* the state after it.
C4_UndoRedoOrder ==
  /\ [](LET all == undoStack \o Reverse(redoStack)
        IN \A i, j \in 1..Len(all) : i < j => all[i].id < all[j].id)
  /\ [](pc = "idle" /\ histCall.ret = "true" =>
          /\ histCall.op = "undo" => doc = StateBefore(Last(redoStack))
          /\ histCall.op = "redo" => doc = StateAfter(Last(undoStack)))
  /\ [][/\ (pc = "idle" /\ pc' = "undo") =>
             /\ cur' = <<Last(undoStack)>>
             /\ undoStack' = Front(undoStack)
             /\ redoStack' = redoStack
        /\ UndoReturns =>
             /\ redoStack' = Append(redoStack, cur[1])
             /\ undoStack' = undoStack
        /\ (pc = "idle" /\ pc' = "redo") =>
             /\ cur' = <<Last(redoStack)>>
             /\ redoStack' = Front(redoStack)
             /\ undoStack' = undoStack
        /\ RedoReturns =>
             /\ undoStack' = Append(undoStack, cur[1])
             /\ redoStack' = redoStack]_vars

\* push(A), push(B), undo(), undo(), redo(): A is back on the undo stack, B
\* waits on the redo stack and the state is the one after A
C4_Witness ==
  /\ pc = "idle" /\ histCall = Call("redo", "true", "")
  /\ Len(undoStack) = 1 /\ undoStack[1].id = 1
  /\ Len(redoStack) = 1 /\ redoStack[1].id = 2
  /\ doc = 1

\* C5: endBatch(L) of a batch that collected actions adds one entry to the
\* undo stack, of type batch, labelled L, holding the collected actions in
\* push order; one undo() of it runs their undo closures last to first, one
\* redo() runs their redo closures first to last.
C5_BatchIsOneStep ==
  [][/\ EndBatchCommits =>
          /\ undoStack' = Newest(Append(undoStack, Last(undoStack')), HistMaxSize)
          /\ Last(undoStack').type = BatchType
          /\ Last(undoStack').label = histCall'.arg
          /\ Last(undoStack').actions = batchActions
          /\ batchActions' = <<>> /\ ~batchMode'
     /\ UndoReturns =>
          ran' = [k \in 1..Len(Subs(cur[1])) |->
                    <<"undo", Subs(cur[1])[Len(Subs(cur[1])) + 1 - k].id>>]
     /\ RedoReturns =>
          ran' = [k \in 1..Len(Subs(cur[1])) |->
                    <<"redo", Subs(cur[1])[k].id>>]]_vars

\* a batch labelled L holding X then Y was undone in one call: Y's closure
\* ran, then X's
C5_Witness ==
  /\ pc = "idle" /\ histCall = Call("undo", "true", "")
  /\ Last(redoStack).type = BatchType
  /\ Last(redoStack).label = "L"
  /\ Len(Last(redoStack).actions) = 2
  /\ ran = <<<<"undo", Last(redoStack).actions[2].id>>,
             <<"undo", Last(redoStack).actions[1].id>>>>

\* C6: startBatch, the pushes it collects, an endBatch that collected nothing
\* and cancelBatch leave both stacks as they are; the last two leave batch
\* mode off with nothing pending; and an action the manager has dropped never
\* comes back (every action that appears is a new one).
C6_EmptyAndCancelledBatch ==
  /\ [][/\ (pc = "idle" /\ histCall'.op = "cancelBatch") =>
             /\ undoStack' = undoStack /\ redoStack' = redoStack
             /\ ~batchMode' /\ batchActions' = <<>>
             /\ DeepIds(batchActions) \cap LiveIds' = {}
        /\ (pc = "idle" /\ histCall'.op = "endBatch" /\ Len(batchActions) = 0) =>
             /\ undoStack' = undoStack /\ redoStack' = redoStack
             /\ ~batchMode' /\ batchActions' = <<>>
        /\ (pc = "idle" /\ histCall'.op = "startBatch") =>
             undoStack' = undoStack /\ redoStack' = redoStack
        /\ (pc = "idle" /\ histCall'.op = "pushAction" /\ batchMode) =>
             undoStack' = undoStack /\ redoStack' = redoStack
        /\ LiveIds' \subseteq LiveIds \cup {nextActionId}]_vars
  /\ [](LiveIds \subseteq 1..(nextActionId - 1))

\* cancelBatch() was called with both stacks non-empty and the action of the
\* latest edit is gone: it was collected and discarded
C6_Witness ==
  /\ pc = "idle" /\ histCall.op = "cancelBatch"
  /\ undoStack # <<>> /\ redoStack # <<>>
  /\ doc = nextActionId - 1
  /\ doc \notin LiveIds

C8_GuardReleased ==
  /\ [](pc = "idle" => ~isExecuting)
  /\ [][(pc = "idle" /\ histCall'.op = "pushAction") =>
          Committed \in Range(undoStack') \cup Range(batchActions')]_vars

\* an undo() or redo() has just ended by an error of a closure
C8_Witness ==
  /\ pc = "idle" /\ histCall.ret = "threw"
  /\ ~isExecuting

\* C9: the undo stack never holds more than maxSize actions, and a commit
\* keeps the newest maxSize entries, in order, dropping the oldest.
C9_BoundedUndoStack ==
  /\ [](Len(undoStack) <= HistMaxSize)
  /\ [][(PushCommits \/ EndBatchCommits) =>
          undoStack' = Newest(Append(undoStack, Committed), HistMaxSize)]_vars

\* maxSize + 1 actions were pushed: the first is gone, the others are kept
C9_Witness ==
  /\ pc = "idle" /\ histCall.op = "pushAction"
  /\ Len(undoStack) = HistMaxSize
  /\ \A i \in 1..Len(undoStack) :
       undoStack[i].id = i + 1 /\ undoStack[i].before = i
  /\ redoStack = <<>>
  /\ nextActionId = HistMaxSize + 2

\* C10: undo() on an empty undo stack and redo() on an empty redo stack
\* return false, run no closure and change nothing.
C10_EmptyUndoRedoNoOp ==
  [][/\ (pc = "idle" /\ histCall'.op = "undo" /\ Len(undoStack) = 0) =>
          /\ histCall'.ret = "false" /\ ran' = <<>>
          /\ UNCHANGED <<undoStack, redoStack, isExecuting, batchMode,
                         batchActions, pc, doc>>
     /\ (pc = "idle" /\ histCall'.op = "redo" /\ Len(redoStack) = 0) =>
          /\ histCall'.ret = "false" /\ ran' = <<>>
          /\ UNCHANGED <<undoStack, redoStack, isExecuting, batchMode,
                         batchActions, pc, doc>>]_vars

\* undo() returned false while a batch was being collected and the redo stack
\* held an action
C10_Witness ==
  /\ pc = "idle" /\ histCall = Call("undo", "false", "")
  /\ batchMode /\ batchActions # <<>>
  /\ redoStack # <<>>

\* C36: every action pushed (outside an undo/redo) between a startBatch()
\* and the endBatch() that commits is contained in the committed batch
\* action, in push order, even when startBatch() is called again while a
\* batch is being collected: while the manager stays in batch mode the
\* collected actions only grow at the end, a push in batch mode appends its
\* action, and the committing endBatch() commits the collected list.
C36_BatchHoldsEveryPush ==
  /\ [][(batchMode /\ batchMode')
          => /\ Len(batchActions') >= Len(batchActions)
             /\ SubSeq(batchActions', 1, Len(batchActions)) = batchActions]_vars
  /\ [][(pc = "idle" /\ histCall'.op = "pushAction" /\ batchMode)
          => batchActions' =
               Append(batchActions,
                      OpAction(nextActionId, doc, nextActionId))]_vars
  /\ [][EndBatchCommits
          => /\ Last(undoStack').type = BatchType
             /\ Last(undoStack').actions = batchActions]_vars

====
